---------------------------- MODULE Spec2Model ----------------------------
(***************************************************************************)
(* A model of libFirm's reassociation pass (optimize_reassociation) on a   *)
(* small sea-of-nodes graph.  A graph is a sequence of node records; the   *)
(* index of a record is the node (its address in the C code).              *)
(***************************************************************************)
EXTENDS Integers, Sequences, FiniteSets, TLC

VARIABLES
    g,        \* the graph: the sequence of its nodes
    loopOf,   \* the loop depth of each block
    floatOk,  \* ir_imprecise_float_transforms_allowed()
    pinned,   \* get_irg_pinned(irg) != op_pin_state_floats
    ret,      \* the last call of a classification function and what it returned
    pc,       \* the phase optimize_reassociation is in
    todo,     \* the nodes the running irg_walk_edges has not visited yet
    sh,       \* the shannon_data of do_shannon
    stk,      \* the stack of the running irg_walk_graph
    visited,  \* the nodes the running irg_walk_graph has marked
    wq,       \* the waitq of do_reassociation
    link,     \* the nodes whose link is the waitq
    cur,      \* the node the current callback works on, or 0
    changed,  \* the local changed of do_reassociation
    ev,       \* the last rewrite
    pass,     \* the number of the running application of the pass
    dirty,    \* whether the running application has changed the graph
    g0,       \* the graph the first application started from
    list,     \* a pointer list (PList) with the elements on its obstack
    lcall     \* the last call of a function of the pointer list

listVars == <<list, lcall>>
passVars == <<loopOf, floatOk, pinned, ret, pass, g0, listVars>>
walkVars == <<stk, visited>>
queueVars == <<wq, link, cur, changed>>

vars == <<g, pc, todo, sh, ev, dirty, passVars, walkVars, queueVars>>

(***************************************************************************)
(* Bounds of the model.                                                    *)
(***************************************************************************)
\* width in bits of the modelled integer modes
W == 2
\* the largest number of nodes a graph may grow to
MaxNodes == 32

Modulus == 2 ^ W
Values == 0 .. (Modulus - 1)

(***************************************************************************)
(* const_class_t                                                           *)
(***************************************************************************)
NO_CONSTANT == 0
REAL_CONSTANT == 1
REGION_CONST == 2

(***************************************************************************)
(* Bit operations on naturals (C's &, | and ^).                            *)
(***************************************************************************)
RECURSIVE BitAnd(_, _)
BitAnd(a, b) ==
    IF a = 0 \/ b = 0 THEN 0
    ELSE (a % 2) * (b % 2) + 2 * BitAnd(a \div 2, b \div 2)

RECURSIVE BitXor(_, _)
BitXor(a, b) ==
    IF a = 0 THEN b
    ELSE IF b = 0 THEN a
    ELSE ((a + b) % 2) + 2 * BitXor(a \div 2, b \div 2)

BitOr(a, b) == a + b - BitAnd(a, b)

(***************************************************************************)
(* Modes.                                                                  *)
(***************************************************************************)
mode_is_int(m) == m \in {"Is", "Iu", "Hs"}
mode_is_float(m) == m = "F"
mode_is_reference(m) == m = "P"
get_mode_size_bits(m) == IF m = "Hs" THEN 16 ELSE 32
get_mode_all_one(m) == Modulus - 1
get_mode_null(m) == 0
tarval_eor(a, b) == BitXor(a, b)

(***************************************************************************)
(* Nodes and graphs.                                                       *)
(***************************************************************************)
Node(op, mode, ins, blk, val) ==
    [op |-> op, mode |-> mode, ins |-> ins, blk |-> blk, val |-> val]

StartBlock == 1
Blocks == {1, 2, 3}

Nodes(G) == 1 .. Len(G)

get_irn_op(G, n) == G[n].op
get_irn_mode(G, n) == G[n].mode
get_nodes_block(G, n) == G[n].blk
get_irn_arity(G, n) == Len(G[n].ins)
get_irn_n(G, n, i) == G[n].ins[i]
get_binop_left(G, n) == G[n].ins[1]
get_binop_right(G, n) == G[n].ins[2]

is_Block(G, n) == G[n].op = "Block"
is_Const(G, n) == G[n].op = "Const"
is_Bad(G, n) == G[n].op = "Bad"
is_Add(G, n) == G[n].op = "Add"
is_Sub(G, n) == G[n].op = "Sub"
is_And(G, n) == G[n].op = "And"
is_Or(G, n) == G[n].op = "Or"
is_Eor(G, n) == G[n].op = "Eor"
is_Not(G, n) == G[n].op = "Not"
is_irn_constlike(G, n) == G[n].op \in {"Const", "Address", "Offset", "Size", "Align"}
is_op_commutative(op) == op \in {"Add", "And", "Eor", "Mul", "Or"}

\* the opcodes ir_register_reassoc_node_ops attaches reassoc_commutative to
has_reassociate(op) == op \in {"Add", "And", "Eor", "Mul", "Or"}

\* the blocks form a chain 1 -> 2 -> 3 under immediate dominance
block_dominates(a, b) == a <= b

\* n is defined outside the loop of block (and of the loops nested in it)
is_loop_invariant(G, lo, n, block) == lo[block] = 1 /\ lo[G[n].blk] = 0

set_irn_n(G, n, i, x) == [G EXCEPT ![n].ins[i] = x]

\* every use of old becomes a use of nw; old is unlinked from the graph
exchange(G, old, nw) ==
    [u \in Nodes(G) |->
        IF u = old THEN Node("Deleted", G[u].mode, <<>>, G[u].blk, 0)
        ELSE [G[u] EXCEPT !.ins = [i \in 1 .. Len(G[u].ins) |->
                                      IF G[u].ins[i] = old THEN nw ELSE G[u].ins[i]]]]

(***************************************************************************)
(* The value of a node under a valuation v of the leaves.                  *)
(***************************************************************************)
ShlVal(a, x) == IF x >= W THEN 0 ELSE (a * (2 ^ x)) % Modulus

\* the bits of the conversion of x from one mode to another: the integer modes
\* of the model share their bits, a conversion between an integer and a float
\* mode encodes the value anew
ConvVal(from, to, x) ==
    IF mode_is_float(from) = mode_is_float(to) THEN x ELSE (Modulus - x) % Modulus

RECURSIVE Eval(_, _, _)
Eval(G, v, n) ==
    LET op == G[n].op
        l == Eval(G, v, G[n].ins[1])
        r == Eval(G, v, G[n].ins[2])
    IN CASE op = "Const" -> G[n].val
         [] op \in {"Var", "Address", "Bad"} -> v[G[n].val]
         [] op = "Add" -> (l + r) % Modulus
         [] op = "Sub" -> (l + Modulus - r) % Modulus
         [] op = "Mul" -> (l * r) % Modulus
         [] op = "Shl" -> ShlVal(l, r)
         [] op = "And" -> BitAnd(l, r)
         [] op = "Or" -> BitOr(l, r)
         [] op = "Eor" -> BitXor(l, r)
         [] op = "Not" -> (Modulus - 1) - l
         [] op = "Conv" -> ConvVal(G[G[n].ins[1]].mode, G[n].mode, l)
         [] OTHER -> 0


(***************************************************************************)
(* Node construction: new_ir_node followed by optimize_node.               *)
(***************************************************************************)
\* the position of a node equal to nd, or 0
FindNode(G, nd) ==
    IF \E k \in Nodes(G) : G[k] = nd
    THEN CHOOSE k \in Nodes(G) : G[k] = nd /\ \A j \in Nodes(G) : G[j] = nd => k <= j
    ELSE 0

\* a node equal to nd: an existing one if there is one, else a new one
Intern(G, nd) ==
    LET k == FindNode(G, nd)
    IN IF k # 0 THEN [G |-> G, n |-> k]
       ELSE [G |-> Append(G, nd), n |-> Len(G) + 1]

\* Const nodes live in the start block
new_Const(G, mode, val) == Intern(G, Node("Const", mode, <<>>, StartBlock, val))

FoldVal(op, l, r) ==
    CASE op = "Add" -> (l + r) % Modulus
      [] op = "Sub" -> (l + Modulus - r) % Modulus
      [] op = "Mul" -> (l * r) % Modulus
      [] op = "Shl" -> ShlVal(l, r)
      [] op = "And" -> BitAnd(l, r)
      [] op = "Or" -> BitOr(l, r)
      [] op = "Eor" -> BitXor(l, r)
      [] OTHER -> 0

\* the local optimizer: constant folding, x & x = x | x = x, x ^ x = 0, and
\* reuse of an equal node
optimize_node(G, nd) ==
    LET in == nd.ins
    IN IF Len(in) = 2 /\ is_Const(G, in[1]) /\ is_Const(G, in[2])
       THEN new_Const(G, nd.mode, FoldVal(nd.op, G[in[1]].val, G[in[2]].val))
       ELSE IF Len(in) = 1 /\ nd.op = "Conv" /\ is_Const(G, in[1])
       THEN new_Const(G, nd.mode, ConvVal(G[in[1]].mode, nd.mode, G[in[1]].val))
       ELSE IF Len(in) = 1 /\ nd.op = "Not" /\ is_Const(G, in[1])
       THEN new_Const(G, nd.mode, (Modulus - 1) - G[in[1]].val)
       ELSE IF Len(in) = 2 /\ nd.op \in {"And", "Or"} /\ in[1] = in[2]
       THEN [G |-> G, n |-> in[1]]
       ELSE IF Len(in) = 2 /\ nd.op = "Eor" /\ in[1] = in[2]
       THEN new_Const(G, nd.mode, 0)
       ELSE Intern(G, nd)

create_node(G, block, op, mode, in) == optimize_node(G, Node(op, mode, in, block, 0))

new_r_Conv(G, block, c, mode) == create_node(G, block, "Conv", mode, <<c>>)

(***************************************************************************)
(* Constant classification and operand normalization.                      *)
(***************************************************************************)
\* get_const_class without the filter for Bad nodes
get_const_class_of_bad(G, lo, n, block) ==
    IF is_Const(G, n) THEN REAL_CONSTANT
    ELSE IF is_irn_constlike(G, n) THEN REGION_CONST
    ELSE IF is_loop_invariant(G, lo, n, block) THEN REGION_CONST
    ELSE NO_CONSTANT

get_const_class(G, lo, n, block) ==
    IF is_Const(G, n) THEN REAL_CONSTANT
    ELSE IF is_irn_constlike(G, n) THEN REGION_CONST
    ELSE IF ~is_Bad(G, n) /\ is_loop_invariant(G, lo, n, block) THEN REGION_CONST
    ELSE NO_CONSTANT

\* get_comm_Binop_ops returning the operands as they stand
get_comm_Binop_ops_unswapped(G, lo, binop) ==
    [a |-> get_binop_left(G, binop), c |-> get_binop_right(G, binop)]

get_comm_Binop_ops(G, lo, binop) ==
    LET op_a == get_binop_left(G, binop)
        op_b == get_binop_right(G, binop)
        block == get_nodes_block(G, binop)
        class_a == get_const_class(G, lo, op_a, block)
        class_b == get_const_class(G, lo, op_b, block)
    IN IF class_a = REAL_CONSTANT /\ class_b = REAL_CONSTANT
       THEN IF mode_is_reference(get_irn_mode(G, op_a))
            THEN [a |-> op_a, c |-> op_b]
            ELSE [a |-> op_b, c |-> op_a]
       ELSE IF class_a = REAL_CONSTANT
               \/ (class_a = REGION_CONST /\ class_b = NO_CONSTANT)
       THEN [a |-> op_b, c |-> op_a]
       ELSE [a |-> op_a, c |-> op_b]

\* get_mode_from_ops taking the mode of the first operand
get_mode_from_first(G, op1, op2) == get_irn_mode(G, op1)

get_mode_from_ops(G, op1, op2) ==
    IF mode_is_reference(get_irn_mode(G, op1)) THEN get_irn_mode(G, op1)
    ELSE IF mode_is_reference(get_irn_mode(G, op2)) THEN get_irn_mode(G, op2)
    ELSE get_irn_mode(G, op1)


(***************************************************************************)
(* reassoc_commutative: the forward rule for Add, And, Eor, Mul, Or.       *)
(* The result holds the new graph, the return value res, the node *node    *)
(* refers to afterwards, and the rule that fired.                          *)
(***************************************************************************)
Unchanged(G, n) == [G |-> G, res |-> 0, node |-> n, rule |-> "none"]

\* Rule A without its guard against a cycle
RuleA_never_blocked(c_c1, c_c2, c_t2) == FALSE

\* the guard with the second test alone: three region constants
RuleA_blocked_if_all_region(c_c1, c_c2, c_t2) ==
    BitAnd(BitAnd(c_c1, c_c2), c_t2) = REGION_CONST

\* the guard with the first test alone: an even number of region constants
RuleA_blocked_if_even(c_c1, c_c2, c_t2) ==
    BitAnd(BitXor(BitXor(c_c1, c_c2), c_t2), REGION_CONST) = 0

\* the guard of Rule A on the three constant classes
RuleA_blocked(c_c1, c_c2, c_t2) ==
    \/ BitAnd(BitXor(BitXor(c_c1, c_c2), c_t2), REGION_CONST) = 0
    \/ BitAnd(BitAnd(c_c1, c_c2), c_t2) = REGION_CONST

\* exchange(n, irn1) and return 1 with *node left as it was
ReplaceBy_old_pointer(n, r, rule) ==
    [G |-> exchange(r.G, n, r.n), res |-> 1, node |-> n, rule |-> rule]

\* exchange(n, irn1), *node = irn1 and return 1: r holds irn1 and the graph
ReplaceBy(n, r, rule) ==
    [G |-> exchange(r.G, n, r.n), res |-> 1, node |-> r.n, rule |-> rule]

\* irn1 = t2 .OP. irn0 replaces n; r0 holds irn0
RuleA_irn1(n, op, block, t2, r0) ==
    ReplaceBy(n, create_node(r0.G, block, op, get_mode_from_ops(r0.G, t2, r0.n),
                             <<t2, r0.n>>), "A")

\* Rule A with irn0 = c1 .OP. c1, as Rule B builds it
RuleA_irn0_twice_c1(G, n, op, block, c1, c2, t2) ==
    RuleA_irn1(n, op, block, t2,
               create_node(G, block, op, get_mode_from_ops(G, c1, c2), <<c1, c1>>))

\* irn0 = c1 .OP. c2, in the block of n
RuleA_irn0(G, n, op, block, c1, c2, t2) ==
    RuleA_irn1(n, op, block, t2,
               create_node(G, block, op, get_mode_from_ops(G, c1, c2), <<c1, c2>>))

\* c1 was converted to the mode of c2: k holds the Conv
RuleA_conv_c1(n, op, block, k, c2, t2) == RuleA_irn0(k.G, n, op, block, k.n, c2, t2)

\* c2 was converted to the mode of c1: k holds the Conv
RuleA_conv_c2(n, op, block, c1, k, t2) == RuleA_irn0(k.G, n, op, block, c1, k.n, t2)

\* Rule A converting c2 whenever the integer modes of c1 and c2 differ
RuleA_apply_conv_c2(G, n, c1, c2, t2, c_c1) ==
    LET op == get_irn_op(G, n)
        block == get_nodes_block(G, n)
        mode_c1 == get_irn_mode(G, c1)
        mode_c2 == get_irn_mode(G, c2)
    IN IF ~(mode_c1 # mode_c2 /\ mode_is_int(mode_c1) /\ mode_is_int(mode_c2))
       THEN RuleA_irn0(G, n, op, block, c1, c2, t2)
       ELSE RuleA_conv_c2(n, op, block, c1, new_r_Conv(G, block, c2, mode_c1), t2)

\* c1 .OP. (c2 .OP. t2) => t2 .OP. (c1 .OP. c2)
RuleA_apply(G, n, c1, c2, t2, c_c1) ==
    LET op == get_irn_op(G, n)
        block == get_nodes_block(G, n)
        mode_c1 == get_irn_mode(G, c1)
        mode_c2 == get_irn_mode(G, c2)
        bits_c1 == get_mode_size_bits(mode_c1)
        bits_c2 == get_mode_size_bits(mode_c2)
    IN IF ~(mode_c1 # mode_c2 /\ mode_is_int(mode_c1) /\ mode_is_int(mode_c2))
       THEN RuleA_irn0(G, n, op, block, c1, c2, t2)
       ELSE IF bits_c1 > bits_c2 \/ (bits_c1 = bits_c2 /\ c_c1 # REAL_CONSTANT)
       THEN RuleA_conv_c2(n, op, block, c1, new_r_Conv(G, block, c2, mode_c1), t2)
       ELSE RuleA_conv_c1(n, op, block, new_r_Conv(G, block, c1, mode_c2), c2, t2)

\* irn1 = r .OP. irn0 replaces n; r0 holds irn0 = c1 .OP. c1
RuleB_irn1(n, op, block, mode_res, r, r0) ==
    ReplaceBy(n, create_node(r0.G, block, op, mode_res, <<r, r0.n>>), "B")

\* x .OP. (x .OP. y) => y .OP. (x .OP. x)
RuleB_apply(G, n, c1, r) ==
    RuleB_irn1(n, get_irn_op(G, n), get_nodes_block(G, n), get_irn_mode(G, n), r,
               create_node(G, get_nodes_block(G, n), get_irn_op(G, n),
                           get_irn_mode(G, c1), <<c1, c1>>))

\* Rule B without the test of the class of r
RuleB_lr_any_class(G, lo, n, c1, l, r) ==
    IF l = c1 /\ r # c1 THEN RuleB_apply(G, n, c1, r)
    ELSE Unchanged(G, n)

\* the second part of reassoc_commutative, for the operands l and r of t1
RuleB_lr(G, lo, n, c1, l, r) ==
    IF get_const_class(G, lo, r, get_nodes_block(G, n)) # NO_CONSTANT THEN Unchanged(G, n)
    ELSE IF l = c1 /\ r # c1 THEN RuleB_apply(G, n, c1, r)
    ELSE Unchanged(G, n)

\* Rule B taking l and r as they stand in t1
RuleB_t1_unflipped(G, lo, n, t1, c1) ==
    IF get_irn_op(G, t1) # get_irn_op(G, n) THEN Unchanged(G, n)
    ELSE RuleB_lr(G, lo, n, c1, get_binop_left(G, t1), get_binop_right(G, t1))

\* the second part of reassoc_commutative, after t1 and c1 were swapped if c1
\* has the opcode of n
RuleB_t1(G, lo, n, t1, c1) ==
    IF get_irn_op(G, t1) # get_irn_op(G, n) THEN Unchanged(G, n)
    ELSE IF get_binop_right(G, t1) = c1
    THEN RuleB_lr(G, lo, n, c1, get_binop_right(G, t1), get_binop_left(G, t1))
    ELSE RuleB_lr(G, lo, n, c1, get_binop_left(G, t1), get_binop_right(G, t1))

RuleB(G, lo, n, t1, c1) ==
    IF get_irn_op(G, c1) = get_irn_op(G, n) THEN RuleB_t1(G, lo, n, c1, t1)
    ELSE RuleB_t1(G, lo, n, t1, c1)

\* the first part of reassoc_commutative, for the operands t2 and c2 of t1
RuleA(G, lo, n, t1, c1, c2, t2) ==
    IF get_const_class(G, lo, c1, get_nodes_block(G, n)) = NO_CONSTANT
    THEN RuleB(G, lo, n, t1, c1)
    ELSE IF RuleA_blocked(get_const_class(G, lo, c1, get_nodes_block(G, n)),
                          get_const_class(G, lo, c2, get_nodes_block(G, n)),
                          get_const_class(G, lo, t2, get_nodes_block(G, n)))
    THEN Unchanged(G, n)
    ELSE RuleA_apply(G, n, c1, c2, t2, get_const_class(G, lo, c1, get_nodes_block(G, n)))

\* o holds the operands t2 and c2 of t1
RuleA_t1(G, lo, n, t1, c1, o) == RuleA(G, lo, n, t1, c1, o.c, o.a)

\* o holds the operands t1 and c1 of n
reassoc_ops(G, lo, n, o) ==
    IF get_irn_op(G, o.a) = get_irn_op(G, n)
    THEN RuleA_t1(G, lo, n, o.a, o.c, get_comm_Binop_ops(G, lo, o.a))
    ELSE RuleB(G, lo, n, o.a, o.c)

reassoc_commutative(G, lo, n) == reassoc_ops(G, lo, n, get_comm_Binop_ops(G, lo, n))


(***************************************************************************)
(* The reverse rules.                                                      *)
(***************************************************************************)
\* earliest_block taking the block of a whatever the block of b is
earliest_block_of_first(G, a, b, curr_blk) ==
    IF get_nodes_block(G, a) = StartBlock THEN curr_blk ELSE get_nodes_block(G, a)

earliest_block(G, a, b, curr_blk) ==
    LET blk_a == get_nodes_block(G, a)
        blk_b == get_nodes_block(G, b)
        res == IF block_dominates(blk_a, blk_b) THEN blk_b ELSE blk_a
    IN IF res = StartBlock THEN curr_blk ELSE res

is_const(G, n) == G[n].op \in {"Address", "Align", "Const", "Offset", "Size"}

is_constant_expr(G, n) ==
    \/ G[n].op \in {"Address", "Align", "Const", "Offset", "Size"}
    \/ /\ G[n].op = "Add"
       /\ is_const(G, get_binop_left(G, n))
       /\ is_const(G, get_binop_right(G, n))

\* the match that takes the operands of the right product in the order of
\* the left one
distributive_match_unordered(G, n) ==
    LET left == get_binop_left(G, n)
        right == get_binop_right(G, n)
        op == get_irn_op(G, left)
        ll == get_binop_left(G, left)
        lr == get_binop_right(G, left)
        rl == get_binop_left(G, right)
        rr == get_binop_right(G, right)
        no == [ok |-> FALSE, a |-> 0, b |-> 0, x |-> 0, op |-> op]
    IN IF op # get_irn_op(G, right) THEN no
       ELSE IF op = "Shl"
       THEN IF lr = rr THEN [ok |-> TRUE, a |-> ll, b |-> rl, x |-> lr, op |-> op]
            ELSE no
       ELSE IF op = "Mul"
       THEN IF ll = rl THEN [ok |-> TRUE, a |-> rr, b |-> lr, x |-> ll, op |-> op]
            ELSE IF ll = rr THEN [ok |-> TRUE, a |-> lr, b |-> rl, x |-> ll, op |-> op]
            ELSE IF lr = rr THEN [ok |-> TRUE, a |-> ll, b |-> rl, x |-> lr, op |-> op]
            ELSE IF lr = rl THEN [ok |-> TRUE, a |-> ll, b |-> rr, x |-> lr, op |-> op]
            ELSE no
       ELSE no

\* the operands a, b and the common factor x of (a.x) +/- (b.x), if any
distributive_match(G, n) ==
    LET left == get_binop_left(G, n)
        right == get_binop_right(G, n)
        op == get_irn_op(G, left)
        ll == get_binop_left(G, left)
        lr == get_binop_right(G, left)
        rl == get_binop_left(G, right)
        rr == get_binop_right(G, right)
        no == [ok |-> FALSE, a |-> 0, b |-> 0, x |-> 0, op |-> op]
    IN IF op # get_irn_op(G, right) THEN no
       ELSE IF op = "Shl"
       THEN IF lr = rr THEN [ok |-> TRUE, a |-> ll, b |-> rl, x |-> lr, op |-> op]
            ELSE no
       ELSE IF op = "Mul"
       THEN IF ll = rl THEN [ok |-> TRUE, a |-> lr, b |-> rr, x |-> ll, op |-> op]
            ELSE IF ll = rr THEN [ok |-> TRUE, a |-> lr, b |-> rl, x |-> ll, op |-> op]
            ELSE IF lr = rr THEN [ok |-> TRUE, a |-> ll, b |-> rl, x |-> lr, op |-> op]
            ELSE IF lr = rl THEN [ok |-> TRUE, a |-> ll, b |-> rr, x |-> lr, op |-> op]
            ELSE no
       ELSE no

\* the outer Mul or Shl replaces n; r0 holds a +/- b
distributive_outer(n, curr_blk, mode, m, r0) ==
    ReplaceBy(n, create_node(r0.G, earliest_block(r0.G, r0.n, m.x, curr_blk), m.op, mode,
                             <<r0.n, m.x>>), "dist")

\* the transform of reverse_rule_distributive for the match m
distributive_transform(G, n, m) ==
    IF ~m.ok THEN Unchanged(G, n)
    ELSE distributive_outer(n, get_nodes_block(G, n), get_irn_mode(G, n), m,
            create_node(G, earliest_block(G, m.a, m.b, get_nodes_block(G, n)),
                        IF is_Add(G, n) THEN "Add" ELSE "Sub", get_irn_mode(G, n),
                        <<m.a, m.b>>))

\* (a.x) +/- (b.x) => (a +/- b).x for . in {Mul, Shl}
reverse_rule_distributive(G, n) == distributive_transform(G, n, distributive_match(G, n))

\* the match that does not ask whether l or r is a constant expression
move_consts_match_any(G, n) ==
    LET l == get_binop_left(G, n)
        r == get_binop_right(G, n)
        op == get_irn_op(G, n)
        no == [ok |-> FALSE, a |-> 0, b |-> 0, c |-> 0, blk |-> 0]
        la == get_binop_left(G, l)
        lb == get_binop_right(G, l)
        ra == get_binop_left(G, r)
        rb == get_binop_right(G, r)
    IN IF get_irn_op(G, l) = op /\ is_constant_expr(G, la)
       THEN [ok |-> TRUE, a |-> r, b |-> lb, c |-> la, blk |-> get_nodes_block(G, l)]
       ELSE IF get_irn_op(G, l) = op /\ is_constant_expr(G, lb)
       THEN [ok |-> TRUE, a |-> la, b |-> r, c |-> lb, blk |-> get_nodes_block(G, l)]
       ELSE IF get_irn_op(G, r) = op /\ is_constant_expr(G, ra)
       THEN [ok |-> TRUE, a |-> l, b |-> rb, c |-> ra, blk |-> get_nodes_block(G, r)]
       ELSE IF get_irn_op(G, r) = op /\ is_constant_expr(G, rb)
       THEN [ok |-> TRUE, a |-> ra, b |-> l, c |-> rb, blk |-> get_nodes_block(G, r)]
       ELSE no

\* the operands a, b of the new inner node, the constant c moved up, and the
\* block of the inner node taken apart, if any
move_consts_match(G, n) ==
    LET l == get_binop_left(G, n)
        r == get_binop_right(G, n)
        op == get_irn_op(G, n)
        no == [ok |-> FALSE, a |-> 0, b |-> 0, c |-> 0, blk |-> 0]
        la == get_binop_left(G, l)
        lb == get_binop_right(G, l)
        ra == get_binop_left(G, r)
        rb == get_binop_right(G, r)
    IN IF is_constant_expr(G, l) \/ is_constant_expr(G, r) THEN no
       ELSE IF get_irn_op(G, l) = op /\ is_constant_expr(G, la)
       THEN [ok |-> TRUE, a |-> r, b |-> lb, c |-> la, blk |-> get_nodes_block(G, l)]
       ELSE IF get_irn_op(G, l) = op /\ is_constant_expr(G, lb)
       THEN [ok |-> TRUE, a |-> la, b |-> r, c |-> lb, blk |-> get_nodes_block(G, l)]
       ELSE IF get_irn_op(G, r) = op /\ is_constant_expr(G, ra)
       THEN [ok |-> TRUE, a |-> l, b |-> rb, c |-> ra, blk |-> get_nodes_block(G, r)]
       ELSE IF get_irn_op(G, r) = op /\ is_constant_expr(G, rb)
       THEN [ok |-> TRUE, a |-> ra, b |-> l, c |-> rb, blk |-> get_nodes_block(G, r)]
       ELSE no

\* irn1 = irn .OP. c replaces n; d holds irn
move_consts_irn1(n, op, m, d) ==
    ReplaceBy(n, create_node(d.G, m.blk, op, get_mode_from_ops(d.G, d.node, m.c),
                             <<d.node, m.c>>),
              IF d.res = 1 THEN "mcu_dist" ELSE "mcu")

\* reverse_rule_distributive on irn = a .OP. b if it is an Add or a Sub; r0
\* holds irn
move_consts_irn(n, op, m, r0) ==
    move_consts_irn1(n, op, m,
        IF is_Add(r0.G, r0.n) \/ is_Sub(r0.G, r0.n)
        THEN reverse_rule_distributive(r0.G, r0.n)
        ELSE Unchanged(r0.G, r0.n))

\* move_consts_up building a .OP. b in the block of the inner node without
\* asking whether a and b are available there
move_consts_transform_anywhere(G, n, m) ==
    IF ~m.ok THEN Unchanged(G, n)
    ELSE IF /\ get_irn_mode(G, m.a) # get_irn_mode(G, m.b)
            /\ mode_is_int(get_irn_mode(G, m.a))
            /\ mode_is_int(get_irn_mode(G, m.b))
    THEN Unchanged(G, n)
    ELSE move_consts_irn(n, get_irn_op(G, n), m,
            create_node(G, m.blk, get_irn_op(G, n), get_mode_from_ops(G, m.a, m.b),
                        <<m.a, m.b>>))

\* the transform of move_consts_up for the match m
move_consts_transform(G, n, m) ==
    IF ~m.ok THEN Unchanged(G, n)
    ELSE IF /\ get_irn_mode(G, m.a) # get_irn_mode(G, m.b)
            /\ mode_is_int(get_irn_mode(G, m.a))
            /\ mode_is_int(get_irn_mode(G, m.b))
    THEN Unchanged(G, n)
    ELSE IF ~block_dominates(get_nodes_block(G, m.a), m.blk) THEN Unchanged(G, n)
    ELSE IF ~block_dominates(get_nodes_block(G, m.b), m.blk) THEN Unchanged(G, n)
    ELSE move_consts_irn(n, get_irn_op(G, n), m,
            create_node(G, m.blk, get_irn_op(G, n), get_mode_from_ops(G, m.a, m.b),
                        <<m.a, m.b>>))

move_consts_up(G, n) == move_consts_transform(G, n, move_consts_match(G, n))

\* what one round reports: m is the result of move_consts_up and d the result
\* of reverse_rule_distributive, which overwrites res
reverse_rules_result(m, d) ==
    [G |-> d.G, res |-> d.res, node |-> d.node,
     rule |-> IF m.res = 1 /\ d.rule = "dist" THEN "mcu_then_dist"
              ELSE IF m.res = 1 THEN m.rule ELSE d.rule]

\* the second half of a round trying reverse_rule_distributive on an Add only
reverse_rules_distributive_add_only(m) ==
    IF is_Add(m.G, m.node)
    THEN reverse_rules_result(m, reverse_rule_distributive(m.G, m.node))
    ELSE m

\* the second half of a round: m is the result of move_consts_up, if called
reverse_rules_distributive(m) ==
    IF is_Add(m.G, m.node) \/ is_Sub(m.G, m.node)
    THEN reverse_rules_result(m, reverse_rule_distributive(m.G, m.node))
    ELSE m

\* one round of the loop of reverse_rules
reverse_rules_round(G, node) ==
    reverse_rules_distributive(IF is_op_commutative(get_irn_op(G, node))
                               THEN move_consts_up(G, node)
                               ELSE Unchanged(G, node))

(***************************************************************************)
(* Shannon simplification.                                                 *)
(***************************************************************************)
is_bitop(G, n) == is_And(G, n) \/ is_Eor(G, n) \/ is_Or(G, n) \/ is_Not(G, n)

\* the number of out edges of n: one for each input slot that holds n
get_irn_n_outs(G, n) ==
    Cardinality({e \in UNION {{u} \X DOMAIN G[u].ins : u \in Nodes(G)} :
                    G[e[1]].ins[e[2]] = n})

Optimization(base, middle, top, other) ==
    [base_node |-> base, middle_node |-> middle, top_node |-> top, other_node |-> other]

\* the counter of current without the reset to walk_base
find_path_counter_leftover(c0, walk_base) == c0 + 1

\* the counter of current after this visit; c0 is the counter the map holds
find_path_counter(c0, walk_base) == (IF c0 < walk_base THEN walk_base ELSE c0) + 1

\* walk_max after the visit that set the counter of current to counter
find_path_walk_max(counter, walk_max) == IF counter > walk_max THEN counter ELSE walk_max

\* the test comparing the counter itself with the number of out edges
find_path_recurses_absolute(G, current, counter, walk_base) ==
    counter = get_irn_n_outs(G, current) /\ is_bitop(G, current)

\* the search goes into the inputs of current
find_path_recurses(G, current, counter, walk_base) ==
    (counter - walk_base) = get_irn_n_outs(G, current) /\ is_bitop(G, current)

\* the greatest counter of the map
MaxCounter(walk_counter) ==
    CHOOSE c \in {walk_counter[n] : n \in DOMAIN walk_counter} :
       \A n \in DOMAIN walk_counter : walk_counter[n] <= c

\* one call of find_path_to_top_node, as the history S.log keeps it: the
\* search it belongs to and its base_node, current, other_node, what the call
\* did ("record" an optimization, "reach" current only, or "recurse" into its
\* inputs), the counter of current before and after the call, and walk_base,
\* walk_max and the greatest counter of the map after it
Visit(S, S1, base_node, current, other_node, kind) ==
    [search |-> S.search, base |-> base_node, node |-> current, from |-> other_node,
     kind |-> kind,
     old |-> S.walk_counter[current], counter |-> S1.walk_counter[current],
     walk_base |-> S1.walk_base,
     walk_max |-> S1.walk_max, most |-> MaxCounter(S1.walk_counter)]

\* S is the shannon_data: walk_counter, walk_base, walk_max, optimizations,
\* the set of the nodes whose inputs a search went into, the number of the
\* searches started, the history of the calls, and the numbers of the
\* optimization records allocated and freed
RECURSIVE find_path_to_top_node(_, _, _, _, _, _, _)
RECURSIVE find_path_inputs(_, _, _, _, _, _, _)
find_path_to_top_node(G, current, other_node, base_node, middle_node, top_node, S) ==
    LET top_node2 == IF current = middle_node THEN middle_node ELSE top_node
        middle_node2 == IF current = middle_node THEN 0 ELSE middle_node
    IN IF /\ current = top_node2
          /\ \/ (middle_node # 0 /\ get_irn_n_outs(G, middle_node) > 1)
             \/ base_node # other_node
       THEN [S EXCEPT !.optimizations =
                Append(@, Optimization(base_node, middle_node2, top_node2, other_node)),
                      !.allocated = @ + 1,
                      !.log = Append(@, Visit(S, S, base_node, current, other_node, "record"))]
       ELSE LET c0 == S.walk_counter[current]
                counter == find_path_counter(c0, S.walk_base)
                S1 == [S EXCEPT !.walk_counter[current] = counter,
                                !.walk_max = find_path_walk_max(counter, @)]
            IN IF find_path_recurses(G, current, counter, S.walk_base)
               THEN find_path_inputs(G, current, 1, base_node, middle_node, top_node,
                        [S1 EXCEPT !.explored = @ \cup {current},
                                   !.log = Append(@, Visit(S, S1, base_node, current,
                                                           other_node, "recurse"))])
               ELSE [S1 EXCEPT !.log = Append(@, Visit(S, S1, base_node, current,
                                                       other_node, "reach"))]

find_path_inputs(G, current, i, base_node, middle_node, top_node, S) ==
    IF i > get_irn_arity(G, current) THEN S
    ELSE find_path_inputs(G, current, i + 1, base_node, middle_node, top_node,
            find_path_to_top_node(G, get_irn_n(G, current, i), current, base_node,
                                  middle_node, top_node, S))

\* the assertion of get_topnode_from_middlenode holds for node
topnode_assert_ok(G, node) == ~(is_Eor(G, node) /\ is_Const(G, get_binop_left(G, node)))

get_topnode_from_middlenode(G, node) ==
    IF is_Not(G, node) THEN get_irn_n(G, node, 1)
    ELSE IF is_Eor(G, node) /\ is_Const(G, get_binop_right(G, node))
    THEN get_binop_left(G, node)
    ELSE node

\* one of the two searches of try_basenode: for the operand l, through r
try_basenode_side(G, base_node, l, r, S) ==
    LET top_node == get_topnode_from_middlenode(G, l)
        middle_node == IF top_node # l THEN l ELSE 0
    IN find_path_to_top_node(G, r, base_node, base_node, middle_node, top_node,
                             [S EXCEPT !.walk_base = S.walk_max, !.search = @ + 1])

try_basenode(G, base_node, S) ==
    IF ~is_And(G, base_node) /\ ~is_Or(G, base_node) THEN S
    ELSE LET l == get_binop_left(G, base_node)
             r == get_binop_right(G, base_node)
         IN try_basenode_side(G, base_node, r, l, try_basenode_side(G, base_node, l, r, S))

has_operand(G, node, operand) ==
    \E i \in 1 .. get_irn_arity(G, node) : get_irn_n(G, node, i) = operand

\* the first input slot of other_node that holds top_node
OperandPos(G, node, operand) ==
    CHOOSE i \in 1 .. get_irn_arity(G, node) :
        /\ get_irn_n(G, node, i) = operand
        /\ \A j \in 1 .. (i - 1) : get_irn_n(G, node, j) # operand

\* replace_node putting base_node, a user of other_node, where the constant
\* belongs
replace_node_by_base(G, top_node, base_node, other_node, replacement) ==
    set_irn_n(G, other_node, OperandPos(G, other_node, top_node), base_node)

replace_node(G, top_node, base_node, other_node, replacement) ==
    LET pos == OperandPos(G, other_node, top_node)
        other_mode == get_irn_mode(G, other_node)
        base_val == IF is_And(G, base_node) THEN get_mode_all_one(other_mode)
                    ELSE get_mode_null(other_mode)
        tv == tarval_eor(base_val, replacement)
        c == new_Const(G, other_mode, tv)
    IN set_irn_n(c.G, other_node, pos, c.n)

get_Eor_tarval(G, node) ==
    IF is_Const(G, get_binop_left(G, node)) THEN G[get_binop_left(G, node)].val
    ELSE G[get_binop_right(G, node)].val

\* the validity check that looks at other_node only
optimization_valid_other_only(G, o) == has_operand(G, o.other_node, o.top_node)

\* a collected optimization is still valid
optimization_valid(G, o) ==
    /\ IF o.middle_node # 0
       THEN has_operand(G, o.middle_node, o.top_node)
            /\ has_operand(G, o.base_node, o.middle_node)
       ELSE has_operand(G, o.base_node, o.top_node)
    /\ has_operand(G, o.other_node, o.top_node)

\* the replacement taken as zero whatever the middle node is
shannon_replacement_null(G, o) == get_mode_null(get_irn_mode(G, o.top_node))

shannon_replacement(G, o) ==
    LET mode == get_irn_mode(G, o.top_node)
    IN IF o.middle_node = 0 THEN get_mode_null(mode)
       ELSE IF is_Not(G, o.middle_node) THEN get_mode_all_one(mode)
       ELSE get_Eor_tarval(G, o.middle_node)

\* the body of the loop of do_shannon for one collected optimization
apply_optimization(G, o) ==
    IF ~optimization_valid(G, o) THEN G
    ELSE replace_node(G, o.top_node, o.base_node, o.other_node, shannon_replacement(G, o))

(***************************************************************************)
(* Exclusive-Or equality simplification.                                   *)
(***************************************************************************)
NOT_FOUND == 0
FOUND_FIRST == 1
FOUND_SECOND == 2

get_irn_n_edges(G, n) == get_irn_n_outs(G, n)

\* only_one_user that is content with activated out edges
only_one_user_any_count(G, edges, n) == edges

only_one_user(G, edges, n) == edges /\ get_irn_n_edges(G, n) <= 1

new_rd_Not(G, block, op, mode) == create_node(G, block, "Not", mode, <<op>>)

\* T holds the graph and the locals a, b, replace and ret of one call
RECURSIVE replace_until_other_user(_, _, _, _, _, _, _)
RECURSIVE replace_inputs(_, _, _, _, _)

\* set_irn_n(node, i, op): o holds op, which is b or a new Not of b
replace_set(T, node, i, o) == [T EXCEPT !.G = set_irn_n(o.G, node, i, o.n)]

\* the switch on the result res of the recursive call
replace_switch(T, res) ==
    IF res.ret \in {FOUND_FIRST, FOUND_SECOND}
    THEN [G |-> res.G,
          a |-> IF res.ret = FOUND_SECOND THEN T.b ELSE T.a,
          b |-> IF res.ret = FOUND_SECOND THEN T.a ELSE T.b,
          ret |-> IF ~T.replace THEN res.ret ELSE T.ret,
          replace |-> TRUE]
    ELSE [T EXCEPT !.G = res.G]

\* the body of the loop for the input t at position i
replace_input(T, edges, node, i, need_not, t) ==
    IF t = T.a
    THEN IF T.replace
         THEN replace_set(T, node, i,
                          IF need_not
                          THEN new_rd_Not(T.G, get_nodes_block(T.G, T.b), T.b,
                                          get_irn_mode(T.G, T.b))
                          ELSE [G |-> T.G, n |-> T.b])
         ELSE [T EXCEPT !.replace = TRUE, !.a = T.b, !.b = T.a, !.ret = FOUND_SECOND]
    ELSE IF t = T.b
    THEN IF ~T.replace THEN [T EXCEPT !.replace = TRUE, !.ret = FOUND_FIRST] ELSE T
    ELSE replace_switch(T, replace_until_other_user(T.G, edges, t, T.a, T.b, need_not,
                                                    T.replace))

replace_inputs(T, edges, node, i, need_not) ==
    IF i > get_irn_arity(T.G, node) THEN T
    ELSE replace_inputs(replace_input(T, edges, node, i, need_not,
                                      get_irn_n(T.G, node, i)),
                        edges, node, i + 1, need_not)

replace_return(T) == [G |-> T.G, ret |-> T.ret]

replace_until_other_user(G, edges, node, a, b, need_not, replace) ==
    IF ~is_bitop(G, node) \/ ~only_one_user(G, edges, node)
    THEN [G |-> G, ret |-> IF replace THEN FOUND_FIRST ELSE NOT_FOUND]
    ELSE replace_return(
            replace_inputs([G |-> G, a |-> a, b |-> b, replace |-> replace,
                            ret |-> IF replace THEN FOUND_FIRST ELSE NOT_FOUND],
                           edges, node, 1, need_not))

\* equality_match without the negation for an Eor below a Not
equality_match_keeps_need_not(G, node) ==
    LET l == get_binop_left(G, node)
        r == get_binop_right(G, node)
        need_not == is_And(G, node)
        no == [ok |-> FALSE, l |-> 0, r |-> 0, need_not |-> FALSE]
    IN IF ~is_And(G, node) /\ ~is_Or(G, node) THEN no
       ELSE IF is_Not(G, l) /\ is_Eor(G, get_irn_n(G, l, 1))
       THEN [ok |-> TRUE, l |-> get_irn_n(G, l, 1), r |-> r, need_not |-> need_not]
       ELSE IF is_Eor(G, l)
       THEN [ok |-> TRUE, l |-> l, r |-> r, need_not |-> need_not]
       ELSE IF is_Not(G, r) /\ is_Eor(G, get_irn_n(G, r, 1))
       THEN [ok |-> TRUE, l |-> get_irn_n(G, r, 1), r |-> l, need_not |-> need_not]
       ELSE IF is_Eor(G, r)
       THEN [ok |-> TRUE, l |-> r, r |-> l, need_not |-> need_not]
       ELSE no

\* the Eor operand of an And/Or node, the other operand and need_not
equality_match(G, node) ==
    LET l == get_binop_left(G, node)
        r == get_binop_right(G, node)
        need_not == is_And(G, node)
        no == [ok |-> FALSE, l |-> 0, r |-> 0, need_not |-> FALSE]
    IN IF ~is_And(G, node) /\ ~is_Or(G, node) THEN no
       ELSE IF is_Not(G, l) /\ is_Eor(G, get_irn_n(G, l, 1))
       THEN [ok |-> TRUE, l |-> get_irn_n(G, l, 1), r |-> r, need_not |-> ~need_not]
       ELSE IF is_Eor(G, l)
       THEN [ok |-> TRUE, l |-> l, r |-> r, need_not |-> need_not]
       ELSE IF is_Not(G, r) /\ is_Eor(G, get_irn_n(G, r, 1))
       THEN [ok |-> TRUE, l |-> get_irn_n(G, r, 1), r |-> l, need_not |-> ~need_not]
       ELSE IF is_Eor(G, r)
       THEN [ok |-> TRUE, l |-> r, r |-> l, need_not |-> need_not]
       ELSE no

\* the assertion a != b of walk_equality holds for node
equality_assert_ok(G, node) ==
    LET m == equality_match(G, node)
    IN m.ok => get_binop_left(G, m.l) # get_binop_right(G, m.l)

\* the calls of replace_until_other_user for the operands a and b of the Eor
equality_replace(G, edges, m, a, b) ==
    IF is_Const(G, b)
    THEN replace_until_other_user(G, edges, m.r, a, b, m.need_not, TRUE).G
    ELSE IF is_Const(G, a)
    THEN replace_until_other_user(G, edges, m.r, b, a, m.need_not, TRUE).G
    ELSE replace_until_other_user(G, edges, m.r,
            IF is_Not(G, a) THEN get_irn_n(G, a, 1) ELSE a,
            IF is_Not(G, b) THEN get_irn_n(G, b, 1) ELSE b,
            (m.need_not # is_Not(G, a)) # is_Not(G, b), FALSE).G

\* walk_equality for the match m
equality_transform(G, edges, m) ==
    IF ~m.ok THEN G
    ELSE equality_replace(G, edges, m, get_binop_left(G, m.l), get_binop_right(G, m.l))

walk_equality(G, edges, node) == equality_transform(G, edges, equality_match(G, node))

(***************************************************************************)
(* irg_walk_graph: depth-first walk over the inputs, from the root, that   *)
(* calls the post callback.  A frame holds a node and the number of its    *)
(* predecessors (its block first, then its inputs from the last to the     *)
(* first) already looked at.                                               *)
(***************************************************************************)
Reverse(sq) == [i \in 1 .. Len(sq) |-> sq[Len(sq) + 1 - i]]

WalkPreds(G, n) == (IF G[n].blk = 0 THEN <<>> ELSE <<G[n].blk>>) \o Reverse(G[n].ins)

\* runs the walk up to the next call of the callback: node is its argument
RECURSIVE WalkAdvance(_, _, _)
WalkAdvance(G, s, vis) ==
    IF s = <<>> THEN [stk |-> s, vis |-> vis, node |-> 0]
    ELSE LET f == s[Len(s)]
             preds == WalkPreds(G, f.n)
         IN IF f.k >= Len(preds)
            THEN [stk |-> SubSeq(s, 1, Len(s) - 1), vis |-> vis, node |-> f.n]
            ELSE LET p == preds[f.k + 1]
                     s1 == [s EXCEPT ![Len(s)].k = f.k + 1]
                 IN IF p \in vis THEN WalkAdvance(G, s1, vis)
                    ELSE WalkAdvance(G, Append(s1, [n |-> p, k |-> 0]), vis \cup {p})

\* the root of the graph: the node the walk starts from
Root(G) == CHOOSE n \in Nodes(G) : G[n].op = "Return"

NoEvent == [kind |-> "none", old |-> 0, new |-> 0, oldrec |-> Node("None", "X", <<>>, 0, 0)]

Event(kind, G, old, new) == [kind |-> kind, old |-> old, new |-> new, oldrec |-> G[old]]

\* the out edges are activated by assure_irg_properties
edges_activated == TRUE

BaseNodes(G) == {n \in Nodes(G) : is_And(G, n) \/ is_Or(G, n)}

\* m is reachable from n over inputs: n depends on m
RECURSIVE DependsOn(_, _, _)
DependsOn(G, n, m) ==
    \E i \in DOMAIN G[n].ins : G[n].ins[i] = m \/ DependsOn(G, G[n].ins[i], m)

NoShannon == [walk_counter |-> <<>>, walk_base |-> 0, walk_max |-> 0,
              optimizations |-> <<>>, explored |-> {}, search |-> 0, log |-> <<>>,
              allocated |-> 0, freed |-> 0]

NewShannon(G) == [NoShannon EXCEPT !.walk_counter = [n \in Nodes(G) |-> 0]]

NewWalk(G) == << [n |-> Root(G), k |-> 0] >>

(***************************************************************************)
(* do_shannon.                                                             *)
(***************************************************************************)
\* try_basenode on the next And/Or node of the walk over the out edges, which
\* calls it for a node after it has called it for the users of the node
do_shannon_try ==
    /\ pc = "shannon"
    /\ \E n \in todo :
          /\ \A m \in todo : ~DependsOn(g, m, n)
          /\ todo' = todo \ {n}
          /\ IF topnode_assert_ok(g, get_binop_left(g, n))
                /\ topnode_assert_ok(g, get_binop_right(g, n))
             THEN /\ sh' = try_basenode(g, n, sh)
                  /\ pc' = pc
             ELSE /\ sh' = sh
                  /\ pc' = "abort"
    /\ ev' = NoEvent
    /\ UNCHANGED <<g, dirty, passVars, walkVars, queueVars>>

\* what the body of the loop does for the optimization o: G1 is the graph
\* after it
do_shannon_body(o, G1) ==
    /\ g' = G1
    /\ ev' = Event(IF optimization_valid(g, o) THEN "shannon" ELSE "shannon_skip",
                   g, o.other_node, o.other_node)
    /\ dirty' = (dirty \/ G1 # g)

\* the number of records freed after the body of the loop has run for o: a
\* continue of a validity check leaves the body before free(optimization)
free_optimization(G, o, freed) == IF optimization_valid(G, o) THEN freed + 1 ELSE freed

\* the loop over the collected optimizations: the next one
do_shannon_apply ==
    /\ pc = "shannon"
    /\ todo = {}
    /\ sh.optimizations # <<>>
    /\ Len(g) + 1 <= MaxNodes
    /\ do_shannon_body(Head(sh.optimizations),
                       apply_optimization(g, Head(sh.optimizations)))
    /\ sh' = [sh EXCEPT !.optimizations = Tail(@),
                        !.freed = free_optimization(g, Head(sh.optimizations), @)]
    /\ UNCHANGED <<pc, todo, passVars, walkVars, queueVars>>

\* do_shannon returns and the walk with walk_equality starts
do_shannon_end ==
    /\ pc = "shannon"
    /\ todo = {}
    /\ sh.optimizations = <<>>
    /\ pc' = "equality"
    /\ todo' = BaseNodes(g)
    /\ sh' = NoShannon
    /\ ev' = NoEvent
    /\ UNCHANGED <<g, dirty, passVars, walkVars, queueVars>>

(***************************************************************************)
(* The walk with walk_equality.                                            *)
(***************************************************************************)
\* walk_equality was called for n: G1 is the graph after it
walk_equality_call(n, G1) ==
    /\ g' = G1
    /\ ev' = IF G1 # g THEN Event("equality", g, n, n) ELSE NoEvent
    /\ dirty' = (dirty \/ G1 # g)

\* walk_equality on the next And/Or node of the walk over the out edges
walk_equality_step ==
    /\ pc = "equality"
    /\ Len(g) + 2 <= MaxNodes
    /\ \E n \in todo :
          /\ todo' = todo \ {n}
          /\ IF equality_assert_ok(g, n)
             THEN /\ walk_equality_call(n, walk_equality(g, edges_activated, n))
                  /\ pc' = pc
             ELSE /\ pc' = "abort"
                  /\ UNCHANGED <<g, ev, dirty>>
    /\ UNCHANGED <<sh, passVars, walkVars, queueVars>>

\* the walk is over: new_waitq and the walk with wq_walker starts
walk_equality_end ==
    /\ pc = "equality"
    /\ todo = {}
    /\ pc' = "wq_walk"
    /\ wq' = <<>>
    /\ ev' = NoEvent
    /\ UNCHANGED <<g, todo, sh, dirty, passVars, walkVars, link, cur, changed>>

(***************************************************************************)
(* The forward phase: wq_walker and do_reassociation.                      *)
(***************************************************************************)
\* the nodes in the order in which the walk calls its post callback for them
RECURSIVE WalkOrder(_, _, _)
WalkOrder(G, s, vis) ==
    IF s = <<>> THEN <<>>
    ELSE LET w == WalkAdvance(G, s, vis)
         IN <<w.node>> \o WalkOrder(G, w.stk, w.vis)

\* wq_walker putting every node into the queue, Blocks as well
RECURSIVE wq_walker_calls_blocks(_, _, _, _)
wq_walker_calls_blocks(G, order, q, lk) ==
    IF order = <<>> THEN [wq |-> q, link |-> lk]
    ELSE wq_walker_calls_blocks(G, Tail(order), Append(q, Head(order)),
                                lk \cup {Head(order)})

\* wq_walker, called for the nodes of order one after the other
RECURSIVE wq_walker_calls(_, _, _, _)
wq_walker_calls(G, order, q, lk) ==
    IF order = <<>> THEN [wq |-> q, link |-> lk]
    ELSE LET n == Head(order)
         IN IF is_Block(G, n) THEN wq_walker_calls(G, Tail(order), q, lk \ {n})
            ELSE wq_walker_calls(G, Tail(order), Append(q, n), lk \cup {n})

\* irg_walk_graph(irg, NULL, wq_walker, wq): the walk that fills the queue
wq_walker ==
    /\ pc = "wq_walk"
    /\ LET r == wq_walker_calls(g, WalkOrder(g, NewWalk(g), {Root(g)}), wq, link)
       IN /\ wq' = r.wq
          /\ link' = r.link
    /\ pc' = "reassoc"
    /\ ev' = NoEvent
    /\ UNCHANGED <<g, todo, sh, dirty, passVars, walkVars, cur, changed>>

\* the re-enqueueing without the test of the link
RECURSIVE EnqueuePreds_always(_, _, _)
EnqueuePreds_always(preds, q, lk) ==
    IF preds = <<>> THEN [wq |-> q, link |-> lk]
    ELSE EnqueuePreds_always(Tail(preds), Append(q, Head(preds)), lk \cup {Head(preds)})

\* the re-enqueueing at the head of the queue
RECURSIVE EnqueuePreds_front(_, _, _)
EnqueuePreds_front(preds, q, lk) ==
    IF preds = <<>> THEN [wq |-> q, link |-> lk]
    ELSE IF Head(preds) \in lk THEN EnqueuePreds_front(Tail(preds), q, lk)
    ELSE EnqueuePreds_front(Tail(preds), <<Head(preds)>> \o q, lk \cup {Head(preds)})

\* the nodes foreach_irn_in_r(n) puts into the queue, in this order
RECURSIVE EnqueuePreds(_, _, _)
EnqueuePreds(preds, q, lk) ==
    IF preds = <<>> THEN [wq |-> q, link |-> lk]
    ELSE IF Head(preds) \in lk THEN EnqueuePreds(Tail(preds), q, lk)
    ELSE EnqueuePreds(Tail(preds), Append(q, Head(preds)), lk \cup {Head(preds)})

\* the loop of do_reassociation without the test for a float mode
reassociate_any_mode(G, lo, fo, n) ==
    IF has_reassociate(get_irn_op(G, n)) THEN reassoc_commutative(G, lo, n)
    ELSE Unchanged(G, n)

\* the rule of the opcode of n, if the loop of do_reassociation calls one
reassociate(G, lo, fo, n) ==
    IF mode_is_float(get_irn_mode(G, n)) /\ ~fo THEN Unchanged(G, n)
    ELSE IF has_reassociate(get_irn_op(G, n)) THEN reassoc_commutative(G, lo, n)
    ELSE Unchanged(G, n)

\* what do_reassociation does after a round of the loop on n that gave r: the
\* next round if r reports a change, else the re-enqueueing if a round has
\* reported one; chg is the local changed before the round
reassociation_result(n, q, lk, chg, r) ==
    IF r.res = 1
    THEN /\ g' = r.G
         /\ cur' = r.node
         /\ changed' = TRUE
         /\ ev' = Event(r.rule, g, n, r.node)
         /\ dirty' = TRUE
         /\ wq' = q
         /\ link' = lk
    ELSE /\ wq' = IF chg THEN EnqueuePreds(Reverse(g[n].ins), q, lk).wq ELSE q
         /\ link' = IF chg THEN EnqueuePreds(Reverse(g[n].ins), q, lk).link ELSE lk
         /\ cur' = 0
         /\ changed' = FALSE
         /\ ev' = NoEvent
         /\ UNCHANGED <<g, dirty>>

\* one round of the loop of do_reassociation on n
reassociation_round(n, q, lk, chg) ==
    reassociation_result(n, q, lk, chg, reassociate(g, loopOf, floatOk, n))

\* do_reassociation takes the next node from the queue and runs the first
\* round of the loop on it
do_reassociation_get ==
    /\ pc = "reassoc"
    /\ cur = 0
    /\ wq # <<>>
    /\ Len(g) + 3 <= MaxNodes
    /\ reassociation_round(Head(wq), Tail(wq), link \ {Head(wq)}, FALSE)
    /\ UNCHANGED <<pc, todo, sh, passVars, walkVars>>

\* one more round of the loop, after a round that reported a change
do_reassociation_iter ==
    /\ pc = "reassoc"
    /\ cur # 0
    /\ Len(g) + 3 <= MaxNodes
    /\ reassociation_round(cur, wq, link, changed)
    /\ UNCHANGED <<pc, todo, sh, passVars, walkVars>>

\* do_reassociation returning although nodes wait in the queue
do_reassociation_end_early ==
    /\ pc = "reassoc"
    /\ cur = 0
    /\ pc' = "reverse"
    /\ stk' = NewWalk(g)
    /\ visited' = {Root(g)}
    /\ ev' = NoEvent
    /\ UNCHANGED <<g, todo, sh, dirty, passVars, queueVars>>

\* do_reassociation returns: the queue is empty; the walk with reverse_rules
\* starts
do_reassociation_end ==
    /\ pc = "reassoc"
    /\ cur = 0
    /\ wq = <<>>
    /\ pc' = "reverse"
    /\ stk' = NewWalk(g)
    /\ visited' = {Root(g)}
    /\ ev' = NoEvent
    /\ UNCHANGED <<g, todo, sh, dirty, passVars, queueVars>>

(***************************************************************************)
(* The reverse phase: the walk with reverse_rules.                         *)
(***************************************************************************)
\* what one round of reverse_rules does to node, if it is not skipped
reverse_rules(G, fo, node) ==
    IF mode_is_float(get_irn_mode(G, node)) /\ ~fo THEN Unchanged(G, node)
    ELSE reverse_rules_round(G, node)

\* what a round of reverse_rules on n that gave r leaves behind
reverse_rules_result_of(n, r) ==
    /\ g' = r.G
    /\ cur' = IF r.res = 1 THEN r.node ELSE 0
    /\ ev' = IF r.rule # "none" THEN Event(r.rule, g, n, r.node) ELSE NoEvent
    /\ dirty' = (dirty \/ r.rule # "none")

\* the walk has advanced to its next call, w, of reverse_rules
reverse_rules_visit(w) ==
    /\ stk' = w.stk
    /\ visited' = w.vis
    /\ reverse_rules_result_of(w.node, reverse_rules(g, floatOk, w.node))

\* reverse_rules is called for the next node of the walk: its first round
reverse_rules_call ==
    /\ pc = "reverse"
    /\ cur = 0
    /\ stk # <<>>
    /\ Len(g) + 5 <= MaxNodes
    /\ reverse_rules_visit(WalkAdvance(g, stk, visited))
    /\ UNCHANGED <<pc, todo, sh, passVars, wq, link, changed>>

\* the loop of reverse_rules: one more round after a round that changed node
reverse_rules_again ==
    /\ pc = "reverse"
    /\ cur # 0
    /\ Len(g) + 5 <= MaxNodes
    /\ reverse_rules_result_of(cur, reverse_rules_round(g, cur))
    /\ UNCHANGED <<pc, todo, sh, passVars, walkVars, wq, link, changed>>

\* the walk is over: del_waitq, and optimize_reassociation returns
optimize_reassociation_end ==
    /\ pc = "reverse"
    /\ cur = 0
    /\ stk = <<>>
    /\ pc' = "done"
    /\ ev' = NoEvent
    /\ UNCHANGED <<g, todo, sh, dirty, passVars, walkVars, queueVars>>

\* a call fn(n, block) and what it returned: a class, operands a and c, or
\* the result res of the rule that fired
Call(fn, n, block, class, a, c, res, rule) ==
    [fn |-> fn, n |-> n, block |-> block, class |-> class, a |-> a, c |-> c,
     res |-> res, rule |-> rule]

NoCall == Call("none", 0, 0, 0, 0, 0, 0, "none")

\* optimize_reassociation is called, and do_shannon is set up
StartPass(G) ==
    /\ pc' = "entry"
    /\ todo' = BaseNodes(G)
    /\ sh' = NewShannon(G)
    /\ stk' = <<>>
    /\ visited' = {}
    /\ wq' = <<>>
    /\ link' = {}
    /\ cur' = 0
    /\ changed' = FALSE
    /\ ev' = NoEvent
    /\ dirty' = FALSE

\* the assertion at the entry of optimize_reassociation: a graph that is not
\* pinned stops the program, for a pinned one do_shannon starts with its walk
optimize_reassociation_entry ==
    /\ pc = "entry"
    /\ pc' = IF pinned THEN "shannon" ELSE "abort"
    /\ UNCHANGED <<g, todo, sh, ev, dirty, passVars, walkVars, queueVars>>

\* optimize_reassociation is applied to its own result
optimize_reassociation_again ==
    /\ pc = "done"
    /\ pass = 1
    /\ pass' = 2
    /\ StartPass(g)
    /\ UNCHANGED <<g, loopOf, floatOk, pinned, ret, g0, listVars>>

(***************************************************************************)
(* Initial graphs.                                                         *)
(***************************************************************************)
BlockNode(preds) == Node("Block", "BB", preds, 0, 0)

\* nodes 1..3 are the blocks, 4..8 the leaves x, y, 1, 2 and an address
LeavesOf(xmode, ymode, onemode, twomode) ==
    << BlockNode(<<>>), BlockNode(<<1>>), BlockNode(<<2>>),
       Node("Var", xmode, <<>>, 1, 1),
       Node("Var", ymode, <<>>, 2, 2),
       Node("Const", onemode, <<>>, 1, 1),
       Node("Const", twomode, <<>>, 1, 2),
       Node("Address", "P", <<>>, 1, 3) >>

Leaves == LeavesOf("Is", "Is", "Is", "Is")

\* the leaves that stand for a value the pass does not know
LeafVars == {Leaves[n].val : n \in {k \in DOMAIN Leaves : Leaves[k].op \in {"Var", "Address"}}}
Valuations == [LeafVars -> Values]

LoopCfgs == { <<0, 0, 0>>, <<0, 0, 1>>, <<0, 1, 1>> }

\* an operation on a reference is an Add of a reference and an integer
ModeOfIns(G, ins) ==
    IF \E i \in 1 .. Len(ins) : G[ins[i]].mode = "P" THEN "P" ELSE G[ins[1]].mode

\* the operation nodes of ops, each <<op, ins, block>> or, for a conversion,
\* <<op, ins, block, mode>>, appended to G
RECURSIVE Build(_, _)
Build(G, ops) ==
    IF ops = <<>> THEN G
    ELSE LET o == Head(ops)
             mode == IF Len(o) = 4 THEN o[4] ELSE ModeOfIns(G, o[2])
         IN Build(Append(G, Node(o[1], mode, o[2], o[3], 0)), Tail(ops))

\* G is typed and placed as the verifier demands: only Add takes a reference,
\* and at most one; the other operands of an operation have one mode; no
\* operation is in the start block; the block of an operand dominates the
\* block of its user
WellFormed(G) ==
    \A n \in Nodes(G) :
       Len(G[n].ins) > 0 /\ G[n].op # "Block" =>
          /\ LET np == Cardinality({i \in DOMAIN G[n].ins : G[G[n].ins[i]].mode = "P"})
             IN np = 0 \/ (G[n].op = "Add" /\ np = 1) \/ G[n].op = "Return"
          /\ Cardinality({G[G[n].ins[i]].mode : i \in DOMAIN G[n].ins} \ {"P"}) <= 1
          /\ G[n].op \notin {"Conv", "Return"} =>
                \A i \in DOMAIN G[n].ins :
                   G[G[n].ins[i]].mode = "F" <=> G[n].mode = "F"
          /\ G[n].blk # StartBlock
          /\ \A i \in DOMAIN G[n].ins : block_dominates(G[G[n].ins[i]].blk, G[n].blk)

\* G with the Return of its last node, the root of the walks from the End
WithReturn(G) == Append(G, Node("Return", "X", <<Len(G)>>, 3, 0))

Graph(ops) == WithReturn(Build(Leaves, ops))

Pair(a, b, left) == IF left THEN <<a, b>> ELSE <<b, a>>

\* inner = p op1 q, outer = inner op2 r or r op2 inner
Chain2Shapes ==
    {<<"Add", "Add">>, <<"Mul", "Mul">>, <<"Add", "Mul">>, <<"And", "And">>, <<"Eor", "Eor">>}
       \X (4 .. 8) \X (4 .. 8) \X (4 .. 8) \X {2, 3} \X {2, 3} \X BOOLEAN

Chain2(c) ==
    Graph(<< <<c[1][1], <<c[2], c[3]>>, c[5]>>, <<c[1][2], Pair(9, c[4], c[7]), c[6]>> >>)

\* p + (q + (r + s)) and ((s + r) + q) + p
Chain3Shapes == (4 .. 7) \X (4 .. 7) \X (4 .. 7) \X (4 .. 7) \X {2, 3} \X BOOLEAN

Chain3(c) ==
    Graph(<< <<"Add", Pair(c[3], c[4], c[6]), c[5]>>,
             <<"Add", Pair(c[2], 9, c[6]), 3>>,
             <<"Add", Pair(c[1], 10, c[6]), 3>> >>)

\* (a . b) +/- (c . d) for . in {Mul, Shl}
DistributiveShapes ==
    {"Mul", "Shl"} \X {"Mul", "Shl"} \X {"Add", "Sub"}
       \X (4 .. 6) \X (4 .. 6) \X (4 .. 6) \X (4 .. 6) \X {2, 3}

Distributive(c) ==
    Graph(<< <<c[1], <<c[4], c[5]>>, c[8]>>,
             <<c[2], <<c[6], c[7]>>, c[8]>>,
             <<c[3], <<9, 10>>, 3>> >>)

\* (c + (p * q)) + (r * s): move_consts_up leaves a sum of products
ConstOverProductsShapes == {4, 5} \X {4, 5} \X {4, 5} \X {4, 5} \X {6, 8} \X BOOLEAN

ConstOverProducts(c) ==
    Graph(<< <<"Mul", <<c[1], c[2]>>, 2>>,
             <<"Mul", <<c[3], c[4]>>, 2>>,
             <<"Add", Pair(c[5], 9, c[6]), 3>>,
             <<"Add", Pair(11, 10, c[6]), 3>> >>)

\* an unsigned x, a reference y and an unsigned constant: c1 + (p + c2) where
\* c1 and c2 are integers of different modes and p is a reference
MixedLeaves == LeavesOf("Iu", "P", "Is", "Iu")

MixedModesShapes == {5, 8} \X {4, 6, 7} \X {4, 6, 7} \X {2, 3} \X BOOLEAN \X BOOLEAN

MixedModes(c) ==
    WithReturn(Build(MixedLeaves, << <<"Add", Pair(c[1], c[2], c[5]), c[4]>>,
                                     <<"Add", Pair(9, c[3], c[6]), 3>> >>))

BitOps == {"And", "Or", "Eor"}

\* a Not of p, or p op q
BitNode(ops, nots, pairs, b) ==
    {<<"Not", <<p>>, b>> : p \in nots} \cup {<<o, pq, b>> : o \in ops, pq \in pairs}

Uses(o, n) == \E i \in DOMAIN o[2] : o[2][i] = n

\* three bitwise nodes, the last an And or an Or
Bit3Shapes ==
    BitNode(BitOps, {4, 5}, {<<4, 5>>, <<4, 6>>, <<6, 4>>, <<4, 4>>}, 2)
       \X BitNode(BitOps, {4, 9},
                  {<<4, 5>>, <<4, 9>>, <<9, 4>>, <<5, 9>>, <<9, 5>>, <<9, 6>>, <<9, 9>>}, 3)
       \X BitNode({"And", "Or"}, {},
                  {<<10, 4>>, <<4, 10>>, <<10, 5>>, <<5, 10>>, <<10, 9>>, <<9, 10>>,
                   <<10, 10>>}, 3)

Bit3(c) == Graph(c)

\* ~(a ^ b) op f, and (~a ^ b) op f
NotEorShapes ==
    ( ({<<"Eor", <<4, 5>>, 2>>, <<"Eor", <<4, 6>>, 2>>} \X {<<"Not", <<9>>, 3>>})
        \cup ({<<"Not", <<4>>, 2>>} \X {<<"Eor", <<9, 5>>, 3>>, <<"Eor", <<5, 9>>, 3>>}) )
       \X BitNode(BitOps, {4}, {4, 5, 6, 9} \X {4, 5, 6, 9}, 3)
       \X {"And", "Or"} \X BOOLEAN

NotEor(c) == Graph(<<c[1][1], c[1][2], c[2], <<c[3], Pair(10, 11, c[4]), 3>> >>)

\* m op (p op1 (q op2 r)) for m = a ^ b and m = ~a
DeepShapes ==
    {<<"Eor", <<4, 5>>, 2>>, <<"Not", <<4>>, 2>>}
       \X BitOps \X {4, 5, 9} \X {4, 5, 9}
       \X {"And", "Or"} \X {4, 5, 9} \X BOOLEAN
       \X {"And", "Or"}

Deep(c) ==
    Graph(<<c[1], <<c[2], <<c[3], c[4]>>, 3>>, <<c[5], Pair(c[6], 10, c[7]), 3>>,
            <<c[8], <<9, 11>>, 3>> >>)

\* (a ^ b) op f for an operand b = y op 1 in the last block and
\* f = b op ~a or ~a op b with ~a in the block before
LateOperandShapes ==
    {"And", "Or"} \X BitOps \X BOOLEAN \X {"And", "Or"} \X BOOLEAN

LateOperand(c) ==
    Graph(<< <<"Not", <<4>>, 2>>, <<c[1], <<5, 6>>, 3>>, <<"Eor", <<4, 10>>, 3>>,
             <<c[2], Pair(10, 9, c[3]), 3>>, <<c[4], Pair(11, 12, c[5]), 3>> >>)

\* p op (q op r) on floats, the sum of two float products, a float made from
\* an integer sum and an integer made from a float sum
FloatLeaves == LeavesOf("F", "Is", "F", "Is")

FloatShapes ==
    { << <<c[1], <<c[2], c[3]>>, c[5]>>, <<c[1], Pair(c[4], 9, c[6]), 3>> >> :
         c \in {"Add", "Mul"} \X {4, 6} \X {4, 6} \X {4, 6} \X {2, 3} \X BOOLEAN }
       \cup { << <<"Mul", <<4, c[1]>>, 2>>, <<"Mul", <<c[2], 4>>, 2>>,
                 <<"Add", <<9, 10>>, 3>> >> : c \in {4, 6} \X {4, 6} }
       \cup { << <<"Add", <<c[1], c[2]>>, c[4]>>, <<"Add", Pair(c[3], 9, c[5]), 3>>,
                 <<"Conv", <<10>>, 3, "F">>, <<"Add", <<11, 4>>, 3>> >> :
                 c \in {5, 7} \X {5, 7} \X {5, 7} \X {2, 3} \X BOOLEAN }
       \cup { << <<"Add", <<c[1], c[2]>>, 2>>, <<"Conv", <<9>>, 3, "Is">>,
                 <<"Add", Pair(10, c[3], c[4]), 3>> >> :
                 c \in {4, 6} \X {4, 6} \X {5, 7} \X BOOLEAN }

FloatGraph(ops) == WithReturn(Build(FloatLeaves, ops))

\* the pass is applied to the graph G, if G is well formed
Start(G, lo, fo) ==
    /\ WellFormed(G)
    /\ g = G
    /\ loopOf = lo
    /\ floatOk = fo

ArithInit ==
    \/ \E c \in Chain2Shapes, lo \in LoopCfgs : Start(Chain2(c), lo, FALSE)
    \/ \E c \in Chain3Shapes, lo \in LoopCfgs : Start(Chain3(c), lo, FALSE)
    \/ \E c \in DistributiveShapes, lo \in {<<0, 0, 0>>, <<0, 0, 1>>} :
          Start(Distributive(c), lo, FALSE)
    \/ \E c \in ConstOverProductsShapes, lo \in {<<0, 0, 0>>, <<0, 0, 1>>} :
          Start(ConstOverProducts(c), lo, FALSE)
    \/ \E c \in MixedModesShapes, lo \in LoopCfgs : Start(MixedModes(c), lo, FALSE)

BitInit ==
    \/ \E c \in Bit3Shapes :
          (Uses(c[2], 9) \/ Uses(c[3], 9)) /\ Start(Bit3(c), <<0, 0, 0>>, FALSE)
    \/ \E c \in NotEorShapes : Start(NotEor(c), <<0, 0, 0>>, FALSE)
    \/ \E c \in DeepShapes : Start(Deep(c), <<0, 0, 0>>, FALSE)
    \/ \E c \in LateOperandShapes : Start(LateOperand(c), <<0, 0, 0>>, FALSE)

FloatInit ==
    \E ops \in FloatShapes, lo \in {<<0, 0, 0>>, <<0, 0, 1>>}, fo \in BOOLEAN :
       Start(FloatGraph(ops), lo, fo)

(***************************************************************************)
(* The pointer list of adt/plist.c, the list do_shannon keeps its          *)
(* optimizations in.  An element is its number on the obstack, from 1;     *)
(* NULL is 0.  next, prev and data hold the fields of the elements.        *)
(***************************************************************************)
\* the largest number of elements the obstack of the list may hold
MaxElements == 3
NULL == 0

\* the pointers stored in the list
ListData == {"p", "q"}

\* what obstack_alloc may leave in the fields of a new element: NULL or
\* the address of an element, and a value
Junk == [next : {NULL, MaxElements}, prev : {NULL, MaxElements}, data : ListData]

plist_new ==
    [firstElement |-> NULL, lastElement |-> NULL, firstFreeElement |-> NULL,
     elementCount |-> 0, obst |-> 0, next |-> <<>>, prev |-> <<>>, data |-> <<>>,
     alive |-> TRUE]

plist_free(L) == [plist_new EXCEPT !.alive = FALSE]

\* allocate_element that always allocates on the obstack
allocate_element_fresh(L, junk) ==
    [L |-> [L EXCEPT !.obst = @ + 1, !.next = Append(@, junk.next),
                     !.prev = Append(@, junk.prev), !.data = Append(@, junk.data)],
     e |-> L.obst + 1]

\* the list after the call and the element returned
allocate_element(L, junk) ==
    IF L.firstFreeElement # NULL
    THEN [L |-> [L EXCEPT !.firstFreeElement = L.next[L.firstFreeElement],
                          !.next[L.firstFreeElement] = NULL],
          e |-> L.firstFreeElement]
    ELSE [L |-> [L EXCEPT !.obst = @ + 1, !.next = Append(@, junk.next),
                          !.prev = Append(@, junk.prev), !.data = Append(@, junk.data)],
          e |-> L.obst + 1]

\* the list with the one element newElement that holds value
plist_insert_first(A, value) ==
    [A.L EXCEPT !.data[A.e] = value, !.prev[A.e] = NULL, !.next[A.e] = NULL,
                !.firstElement = A.e, !.lastElement = A.e, !.elementCount = 1]

\* plist_insert_before that leaves firstElement as it is
plist_insert_before_keeps_first(L, element, value, junk) ==
    LET A == allocate_element(L, junk)
        prevElement == A.L.prev[element]
        L1 == [A.L EXCEPT !.data[A.e] = value, !.next[A.e] = element,
                          !.prev[A.e] = prevElement]
        L2 == IF prevElement # NULL THEN [L1 EXCEPT !.next[prevElement] = A.e] ELSE L1
    IN [L2 EXCEPT !.prev[element] = A.e, !.elementCount = @ + 1]

plist_insert_before(L, element, value, junk) ==
    LET A == allocate_element(L, junk)
        prevElement == A.L.prev[element]
        L1 == [A.L EXCEPT !.data[A.e] = value, !.next[A.e] = element,
                          !.prev[A.e] = prevElement]
        L2 == IF prevElement # NULL
              THEN [L1 EXCEPT !.next[prevElement] = A.e]
              ELSE [L1 EXCEPT !.firstElement = A.e]
    IN [L2 EXCEPT !.prev[element] = A.e, !.elementCount = @ + 1]

plist_insert_after(L, element, value, junk) ==
    LET A == allocate_element(L, junk)
        L1 == [A.L EXCEPT !.data[A.e] = value, !.prev[A.e] = element]
        nextElement == L1.next[element]
        L2 == [L1 EXCEPT !.next[A.e] = nextElement]
        L3 == IF nextElement # NULL
              THEN [L2 EXCEPT !.prev[nextElement] = A.e]
              ELSE [L2 EXCEPT !.lastElement = A.e]
    IN [L3 EXCEPT !.next[element] = A.e, !.elementCount = @ + 1]

plist_insert_back(L, value, junk) ==
    IF L.lastElement # NULL
    THEN plist_insert_after(L, L.lastElement, value, junk)
    ELSE plist_insert_first(allocate_element(L, junk), value)

plist_insert_front(L, value, junk) ==
    IF L.firstElement # NULL
    THEN plist_insert_before(L, L.firstElement, value, junk)
    ELSE plist_insert_first(allocate_element(L, junk), value)

plist_erase(L, element) ==
    LET nextElement == L.next[element]
        prevElement == L.prev[element]
        L1 == IF nextElement # NULL
              THEN [L EXCEPT !.prev[nextElement] = prevElement]
              ELSE [L EXCEPT !.lastElement = prevElement]
        L2 == IF prevElement # NULL
              THEN [L1 EXCEPT !.next[prevElement] = nextElement]
              ELSE [L1 EXCEPT !.firstElement = nextElement]
    IN [L2 EXCEPT !.elementCount = @ - 1,
                  !.prev[element] = NULL,
                  !.next[element] = L.firstFreeElement,
                  !.firstFreeElement = element]

\* the first loop of plist_clear, from currentElement on
RECURSIVE plist_clear_prev(_, _)
plist_clear_prev(L, currentElement) ==
    IF currentElement = NULL THEN L
    ELSE plist_clear_prev([L EXCEPT !.prev[currentElement] = NULL], L.next[currentElement])

plist_clear(L) ==
    LET L1 == plist_clear_prev(L, L.firstElement)
        L2 == IF L1.lastElement # NULL
              THEN [L1 EXCEPT !.next[L1.lastElement] = L1.firstFreeElement]
              ELSE L1
    IN [L2 EXCEPT !.firstFreeElement = L2.firstElement,
                  !.firstElement = NULL, !.lastElement = NULL, !.elementCount = 0]

\* the elements from e on along next, at most fuel of them
RECURSIVE Chain(_, _, _)
Chain(L, e, fuel) ==
    IF e = NULL \/ fuel = 0 THEN <<>> ELSE <<e>> \o Chain(L, L.next[e], fuel - 1)

\* the elements of the list from firstElement on, and those of the free list
ListElements(L) == Chain(L, L.firstElement, L.obst + 1)
FreeElements(L) == Chain(L, L.firstFreeElement, L.obst + 1)

ListCall(fn, element, value) == [fn |-> fn, element |-> element, value |-> value]

NoListCall == ListCall("none", NULL, "none")

\* what a call of a function of the list leaves alone
ListFrame ==
    UNCHANGED <<g, pc, todo, sh, ev, dirty, loopOf, floatOk, pinned, ret, pass, g0,
                walkVars, queueVars>>

\* a new element can be had without the obstack growing beyond MaxElements
CanAllocate == list.firstFreeElement # NULL \/ list.obst < MaxElements

call_plist_insert_front ==
    /\ list.alive
    /\ CanAllocate
    /\ \E value \in ListData, junk \in Junk :
          /\ list' = plist_insert_front(list, value, junk)
          /\ lcall' = ListCall("plist_insert_front", NULL, value)
    /\ ListFrame

call_plist_insert_back ==
    /\ list.alive
    /\ CanAllocate
    /\ \E value \in ListData, junk \in Junk :
          /\ list' = plist_insert_back(list, value, junk)
          /\ lcall' = ListCall("plist_insert_back", NULL, value)
    /\ ListFrame

\* the element of a call is an element of the list
call_plist_insert_before ==
    /\ list.alive
    /\ CanAllocate
    /\ \E i \in DOMAIN ListElements(list), value \in ListData, junk \in Junk :
          /\ list' = plist_insert_before(list, ListElements(list)[i], value, junk)
          /\ lcall' = ListCall("plist_insert_before", ListElements(list)[i], value)
    /\ ListFrame

call_plist_insert_after ==
    /\ list.alive
    /\ CanAllocate
    /\ \E i \in DOMAIN ListElements(list), value \in ListData, junk \in Junk :
          /\ list' = plist_insert_after(list, ListElements(list)[i], value, junk)
          /\ lcall' = ListCall("plist_insert_after", ListElements(list)[i], value)
    /\ ListFrame

call_plist_erase ==
    /\ list.alive
    /\ \E i \in DOMAIN ListElements(list) :
          /\ list' = plist_erase(list, ListElements(list)[i])
          /\ lcall' = ListCall("plist_erase", ListElements(list)[i], "none")
    /\ ListFrame

call_plist_clear ==
    /\ list.alive
    /\ list' = plist_clear(list)
    /\ lcall' = ListCall("plist_clear", NULL, "none")
    /\ ListFrame

call_plist_free ==
    /\ list.alive
    /\ list' = plist_free(list)
    /\ lcall' = ListCall("plist_free", NULL, "none")
    /\ ListFrame

NextList ==
    \/ call_plist_insert_front
    \/ call_plist_insert_back
    \/ call_plist_insert_before
    \/ call_plist_insert_after
    \/ call_plist_erase
    \/ call_plist_clear
    \/ call_plist_free

Init ==
    /\ ArithInit \/ BitInit \/ FloatInit
    /\ pinned \in BOOLEAN
    /\ ret = NoCall
    /\ g0 = g
    /\ pass = 1
    /\ pc = "entry"
    /\ todo = BaseNodes(g)
    /\ sh = NewShannon(g)
    /\ stk = <<>>
    /\ visited = {}
    /\ wq = <<>>
    /\ link = {}
    /\ cur = 0
    /\ changed = FALSE
    /\ ev = NoEvent
    /\ list = plist_new
    /\ lcall = NoListCall
    /\ dirty = FALSE

Pass ==
    \/ optimize_reassociation_entry
    \/ do_shannon_try
    \/ do_shannon_apply
    \/ do_shannon_end
    \/ walk_equality_step
    \/ walk_equality_end
    \/ wq_walker
    \/ do_reassociation_get
    \/ do_reassociation_iter
    \/ do_reassociation_end
    \/ reverse_rules_call
    \/ reverse_rules_again
    \/ optimize_reassociation_end

Next == Pass

Spec == Init /\ [][Next]_vars

\* the pass and a second application of it to its own result
NextTwice == Pass \/ optimize_reassociation_again

SpecTwice == Init /\ [][NextTwice]_vars

(***************************************************************************)
(* The classification functions and reassoc_commutative, each called once  *)
(* for a node of a graph as the front end builds it.                       *)
(***************************************************************************)
\* y is a Bad node
BadLeaves == [Leaves EXCEPT ![5].op = "Bad"]

\* integers of 16 and of 32 bits: x and the constant 2 are short
WideLeaves == LeavesOf("Hs", "P", "Is", "Hs")

\* the constant 1 is a reference, as NULL is
NullLeaves == LeavesOf("Is", "Is", "P", "Is")

\* integer variables x and y of the same width and of different modes, and a
\* reference variable
TieLeaves == [LeavesOf("Iu", "Is", "Is", "Iu") EXCEPT ![8] = Node("Var", "P", <<>>, 2, 3)]

\* the graphs of Chain2 over the leaves L
Chain2Of(L, c) ==
    WithReturn(Build(L, << <<c[1][1], <<c[2], c[3]>>, c[5]>>,
                           <<c[1][2], Pair(9, c[4], c[7]), c[6]>> >>))

\* no call was made yet
OpsFrame ==
    /\ pinned = TRUE
    /\ ret = NoCall
    /\ g0 = g
    /\ pass = 1
    /\ pc = "call"
    /\ todo = {}
    /\ sh = NoShannon
    /\ stk = <<>>
    /\ visited = {}
    /\ wq = <<>>
    /\ link = {}
    /\ cur = 0
    /\ changed = FALSE
    /\ ev = NoEvent
    /\ list = plist_new
    /\ lcall = NoListCall
    /\ dirty = FALSE

OpsInit ==
    /\ \/ ArithInit
       \/ \E c \in Chain2Shapes, lo \in LoopCfgs, L \in {BadLeaves, WideLeaves, NullLeaves, TieLeaves} :
             Start(Chain2Of(L, c), lo, FALSE)
    /\ OpsFrame

\* what a call leaves alone
CallFrame ==
    UNCHANGED <<todo, sh, dirty, loopOf, floatOk, pinned, pass, g0, listVars, walkVars,
                queueVars>>

\* get_const_class(n, block) for a node and a block of the graph
call_get_const_class ==
    /\ pc = "call"
    /\ \E n \in Nodes(g), block \in Blocks :
          /\ ~is_Block(g, n)
          /\ ret' = Call("get_const_class", n, block,
                         get_const_class(g, loopOf, n, block), 0, 0, 0, "none")
    /\ pc' = "returned"
    /\ UNCHANGED <<g, ev>>
    /\ CallFrame

\* get_comm_Binop_ops(binop, &a, &c) for a commutative node of the graph
call_get_comm_Binop_ops ==
    /\ pc = "call"
    /\ \E binop \in Nodes(g) :
          /\ is_op_commutative(get_irn_op(g, binop))
          /\ ret' = Call("get_comm_Binop_ops", binop, get_nodes_block(g, binop), 0,
                         get_comm_Binop_ops(g, loopOf, binop).a,
                         get_comm_Binop_ops(g, loopOf, binop).c, 0, "none")
    /\ pc' = "returned"
    /\ UNCHANGED <<g, ev>>
    /\ CallFrame

\* what reassoc_commutative(&n) leaves: r is its result
reassoc_commutative_returns(n, r) ==
    /\ g' = r.G
    /\ ret' = Call("reassoc_commutative", n, get_nodes_block(g, n), 0, 0, 0, r.res, r.rule)
    /\ ev' = IF r.res = 1 THEN Event(r.rule, g, n, r.node) ELSE NoEvent

\* reassoc_commutative(&n) for a commutative node of the graph
call_reassoc_commutative ==
    /\ pc = "call"
    /\ Len(g) + 3 <= MaxNodes
    /\ \E n \in Nodes(g) :
          /\ is_op_commutative(get_irn_op(g, n))
          /\ reassoc_commutative_returns(n, reassoc_commutative(g, loopOf, n))
    /\ pc' = "returned"
    /\ CallFrame

NextOps ==
    \/ call_get_const_class
    \/ call_get_comm_Binop_ops
    \/ call_reassoc_commutative

SpecOps == OpsInit /\ [][NextOps]_vars

(***************************************************************************)
(* One call of a rule of the reverse phase on a graph of the front end.    *)
(***************************************************************************)
\* what fn(&n) leaves: r is its result
rule_returns(fn, n, r) ==
    /\ g' = r.G
    /\ ret' = Call(fn, n, get_nodes_block(g, n), 0, 0, 0, r.res, r.rule)
    /\ ev' = IF r.res = 1 THEN Event(r.rule, g, n, r.node) ELSE NoEvent

\* reverse_rule_distributive(&n) for an Add or a Sub of the graph
call_reverse_rule_distributive ==
    /\ pc = "call"
    /\ Len(g) + 5 <= MaxNodes
    /\ \E n \in Nodes(g) :
          /\ is_Add(g, n) \/ is_Sub(g, n)
          /\ rule_returns("reverse_rule_distributive", n, reverse_rule_distributive(g, n))
    /\ pc' = "returned"
    /\ CallFrame

\* move_consts_up(&n) for a commutative node of the graph
call_move_consts_up ==
    /\ pc = "call"
    /\ Len(g) + 5 <= MaxNodes
    /\ \E n \in Nodes(g) :
          /\ is_op_commutative(get_irn_op(g, n))
          /\ rule_returns("move_consts_up", n, move_consts_up(g, n))
    /\ pc' = "returned"
    /\ CallFrame

NextReverse ==
    \/ call_reverse_rule_distributive
    \/ call_move_consts_up

\* integer variables x and y of the same width and of different modes
SignLeaves == LeavesOf("Iu", "Is", "Is", "Iu")

\* inner = c op1 p with a constant c, other = q op2 r, and
\* n = inner op1 other or other op1 inner
MoveUpShapes ==
    {"Add", "Mul"} \X {6, 8} \X {4, 5} \X {"Add", "Mul"} \X {4, 5} \X {4, 5}
       \X {2, 3} \X {2, 3} \X BOOLEAN \X BOOLEAN

MoveUp(L, c) ==
    WithReturn(Build(L, << <<c[1], Pair(c[2], c[3], c[9]), c[7]>>,
                           <<c[4], <<c[5], c[6]>>, c[8]>>,
                           <<c[1], Pair(9, 10, c[10]), 3>> >>))

ReverseInit ==
    /\ \/ ArithInit
       \/ \E c \in MoveUpShapes, L \in {Leaves, SignLeaves} :
             Start(MoveUp(L, c), <<0, 0, 1>>, FALSE)
       \/ \E c \in Chain2Shapes : Start(Chain2Of(SignLeaves, c), <<0, 0, 1>>, FALSE)
    /\ OpsFrame

SpecReverse == ReverseInit /\ [][NextReverse]_vars

\* the functions of the pointer list, called in any order on a new list
ListInit ==
    /\ g = Leaves
    /\ loopOf = <<0, 0, 0>>
    /\ floatOk = FALSE
    /\ OpsFrame

SpecList == ListInit /\ [][NextList]_vars

(***************************************************************************)
(* Properties of the pass.                                                 *)
(***************************************************************************)
\* the rules of the forward and of the reverse phase, as ev names them
ArithRules == {"A", "B", "mcu", "mcu_dist", "mcu_then_dist", "dist"}

\* C1: whenever Rule A, Rule B, move_consts_up or reverse_rule_distributive
\* replaces a node n of an integer or reference mode, the node that replaces
\* n has, under every valuation of the leaves, the value n had before the
\* rewrite (arithmetic modulo 2^W).
C1_RewritePreservesValue ==
    [][ev'.kind \in ArithRules /\ ~mode_is_float(ev'.oldrec.mode)
          => \A v \in Valuations : Eval(g', v, ev'.new) = Eval(g, v, ev'.old)]_vars

\* Rule A has replaced a product by a node that is not a constant
C1_Witness ==
    /\ ev.kind = "A"
    /\ ev.oldrec.op = "Mul"
    /\ ev.oldrec.mode = "Is"
    /\ ~is_Const(g, ev.new)


\* the nodes of G that have n as an input
Users(G, n) == {u \in Nodes(G) : has_operand(G, u, n)}

\* the bitwise region do_shannon has explored: the And and Or nodes it took
\* as base nodes and the nodes whose inputs a search went into
ShannonRegion == BaseNodes(g0) \cup sh.explored

\* n has the value in G that it had before the pass
SameValue(G, n) == \A v \in Valuations : Eval(G, v, n) = Eval(g0, v, n)

StripNot(G, n) == IF is_Not(G, n) THEN get_irn_n(G, n, 1) ELSE n

\* the table of walk_equality for the And or Or node N whose operand e is an
\* Eor a ^ b, directly or below a Not: whether the one of a and b is replaced
\* by the negation of the other.  A Not stripped from a or b toggles it; no
\* Not is stripped if a or b is a constant.
TableNegates(G, N, e) ==
    LET a == get_binop_left(G, e)
        b == get_binop_right(G, e)
        below_not == ~has_operand(G, N, e)
        strip == ~is_Const(G, a) /\ ~is_Const(G, b)
    IN (((is_And(G, N) # below_not) # (strip /\ is_Not(G, a))) # (strip /\ is_Not(G, b)))

\* the operands a and b of the table, without the Nots that are stripped
TableOperands(G, e) ==
    LET a == get_binop_left(G, e)
        b == get_binop_right(G, e)
    IN IF is_Const(G, a) \/ is_Const(G, b) THEN {a, b} ELSE {StripNot(G, a), StripNot(G, b)}

\* n is x, or stands for the negation of x if neg
StandsFor(G, n, x, neg) ==
    IF ~neg THEN n = x
    ELSE IF is_Const(G, x) THEN is_Const(G, n) /\ G[n].val = (Modulus - 1) - G[x].val
    ELSE is_Not(G, n) /\ get_irn_n(G, n, 1) = x

\* the input slots of G whose node is not the one of H
ChangedSlots(G, H) ==
    {s \in UNION {{u} \X DOMAIN G[u].ins : u \in Nodes(G)} : H[s[1]].ins[s[2]] # G[s[1]].ins[s[2]]}

\* C3: a rewrite by walk_equality of an And or Or node N with the operands
\* (a ^ b) or ~(a ^ b) and f leaves the value of N, under every valuation of
\* the leaves, as it was, and follows the table: every input it changes held
\* one of a and b and now holds the other, negated for (a ^ b) & f and
\* ~(a ^ b) | f and as it is for ~(a ^ b) & f and (a ^ b) | f.
C3_EqualityFollowsTable ==
    [][ev'.kind = "equality"
          => /\ \A v \in Valuations : Eval(g', v, ev'.old) = Eval(g, v, ev'.old)
             /\ \A s \in ChangedSlots(g, g') :
                   \E x, y \in TableOperands(g, equality_match(g, ev'.old).l) :
                      /\ x # y
                      /\ g[s[1]].ins[s[2]] = y
                      /\ StandsFor(g', g'[s[1]].ins[s[2]], x,
                                   TableNegates(g, ev'.old, equality_match(g, ev'.old).l))]_vars

\* And(Eor(a, b), Or(a, b)) has become And(Eor(a, b), Or(a, Not(a)))
C3_Witness ==
    /\ ev.kind = "equality"
    /\ is_And(g, ev.old)
    /\ LET e == get_binop_left(g, ev.old)
           f == get_binop_right(g, ev.old)
       IN /\ is_Eor(g, e)
          /\ is_Or(g, f)
          /\ g0[f].ins = g[e].ins
          /\ get_binop_left(g, f) = get_binop_left(g, e)
          /\ is_Not(g, get_binop_right(g, f))
          /\ get_irn_n(g, get_binop_right(g, f), 1) = get_binop_left(g, e)
          /\ g[get_binop_left(g, e)].op = "Var"
          /\ g[get_binop_right(g, e)].op = "Var"

\* the number of nodes of G that were exchanged
Exchanged(G) == Cardinality({n \in Nodes(G) : G[n].op = "Deleted"})

\* the rank of a state: the phase, the number of nodes left to exchange, and
\* the work left in the phase before the next exchange
PhaseRank ==
    CASE pc = "entry" -> 8
      [] pc = "shannon" /\ todo # {} -> 7
      [] pc = "shannon" -> 6
      [] pc = "equality" -> 5
      [] pc = "wq_walk" -> 4
      [] pc = "reassoc" -> 3
      [] pc = "reverse" -> 2
      [] OTHER -> 0

WorkRank ==
    CASE pc = "shannon" /\ todo # {} -> Cardinality(todo)
      [] pc = "shannon" -> Len(sh.optimizations)
      [] pc = "equality" -> Cardinality(todo)
      [] pc = "reassoc" -> Len(wq) + (IF cur # 0 THEN 3 ELSE 0)
      [] pc = "reverse" -> 2 * (Len(g) - Cardinality(visited)) + Len(stk)
                              + (IF cur # 0 THEN 1 ELSE 0)
      [] OTHER -> 0

Rank == <<PhaseRank, MaxNodes - Exchanged(g), WorkRank>>

\* a is below b in the lexicographic order
RankLess(a, b) ==
    \/ a[1] < b[1]
    \/ a[1] = b[1] /\ a[2] < b[2]
    \/ a[1] = b[1] /\ a[2] = b[2] /\ a[3] < b[3]

\* C4: the pass terminates: every step of it, a round of the loop of
\* do_reassociation on a node and a round of the loop of reverse_rules among
\* them, lowers a rank of three natural numbers in the lexicographic order,
\* and the graph stays below the largest size of the model; so the loops on a
\* node exit, the worklist becomes empty and the walks end.
C4_Terminates ==
    [][pass' = pass
          => /\ RankLess(Rank', Rank)
             /\ \A i \in 1 .. 3 : Rank'[i] >= 0
             /\ Len(g') + 5 <= MaxNodes]_vars

\* the pass has returned after it has exchanged three nodes or more
C4_Witness == pc = "done" /\ Exchanged(g) >= 3

\* the nodes of a float mode
FloatNodes(G) == {n \in Nodes(G) : mode_is_float(get_irn_mode(G, n)) /\ G[n].op # "Deleted"}

\* do_reassociation takes a float node from the queue and puts no node into it
FloatDequeue ==
    pc = "reassoc" /\ cur = 0 /\ wq # <<>> /\ Head(wq) \in FloatNodes(g) => wq' = Tail(wq)

\* C5 as stated: while float transforms are not allowed, a step of the
\* forward or of the reverse phase leaves the opcode and the inputs of every
\* node of a float mode as they are, and taking such a node from the queue
\* puts no node into the queue.
C5_FloatNodesKeepInputs ==
    [][~floatOk /\ pc \in {"reassoc", "reverse"}
          => /\ \A n \in FloatNodes(g) : g'[n] = g[n]
             /\ FloatDequeue]_vars

\* C5, amended: while float transforms are not allowed, a step of the forward
\* or of the reverse phase leaves the opcode of every node of a float mode as
\* it is, so the node is not exchanged, and taking such a node from the queue
\* puts no node into the queue; an input of it changes only if the input is
\* not of a float mode and the step has exchanged it: the new input is the
\* node that replaces it.
C5_FloatNodesNotRewritten ==
    [][~floatOk /\ pc \in {"reassoc", "reverse"}
          => /\ \A n \in FloatNodes(g) :
                   /\ g'[n].op = g[n].op
                   /\ Len(g'[n].ins) = Len(g[n].ins)
                   /\ \A i \in DOMAIN g[n].ins :
                         g'[n].ins[i] # g[n].ins[i]
                            => /\ ~mode_is_float(get_irn_mode(g, g[n].ins[i]))
                               /\ g'[g[n].ins[i]].op = "Deleted"
                               /\ ev'.kind \in ArithRules
                               /\ g'[n].ins[i] = ev'.new
             /\ FloatDequeue]_vars

\* the forward phase is over and has left a float node that the rule of its
\* opcode would rewrite
C5_Witness ==
    /\ ~floatOk
    /\ pc = "reverse"
    /\ \E n \in FloatNodes(g) :
          has_reassociate(get_irn_op(g, n)) /\ reassoc_commutative(g, loopOf, n).res = 1

\* the chain of op nodes from n down to a variable x, each node of it with a
\* Const and the rest of the chain as its operands: x and the constants
RECURSIVE ConstChain(_, _, _)
ConstChain(G, op, n) ==
    LET l == get_binop_left(G, n)
        r == get_binop_right(G, n)
        no == [ok |-> FALSE, x |-> 0, consts |-> <<>>]
    IN IF G[n].op = "Var" THEN [ok |-> TRUE, x |-> n, consts |-> <<>>]
       ELSE IF G[n].op # op THEN no
       ELSE IF is_Const(G, l) /\ ~is_Const(G, r)
       THEN [ConstChain(G, op, r) EXCEPT !.consts = <<G[l].val>> \o @]
       ELSE IF is_Const(G, r) /\ ~is_Const(G, l)
       THEN [ConstChain(G, op, l) EXCEPT !.consts = <<G[r].val>> \o @]
       ELSE no

\* op applied to all of vals
RECURSIVE FoldAll(_, _)
FoldAll(op, vals) ==
    IF Len(vals) = 1 THEN vals[1] ELSE FoldVal(op, vals[1], FoldAll(op, Tail(vals)))

\* the node the graph G returns
Result(G) == get_irn_n(G, Root(G), 1)

\* C6: if the graph returns a chain Add(C1, Add(C2, x)), Mul(C1, Mul(x, C2))
\* or Add(C1, Add(C2, Add(C3, x))) of literal constants Ci over a variable x
\* that is no constant of any class, then after the pass it returns op(x, C)
\* for the constant C that is the sum, or the product, of the Ci.
C6_NestedConstantsFolded ==
    pc = "done" /\ pass = 1
       => LET op == g0[Result(g0)].op
              c == ConstChain(g0, op, Result(g0))
          IN /\ op \in {"Add", "Mul"}
             /\ c.ok
             /\ Len(c.consts) >= 2
             /\ get_const_class(g0, loopOf, c.x, get_nodes_block(g0, Result(g0))) = NO_CONSTANT
             => /\ g[Result(g)].op = op
                /\ get_binop_left(g, Result(g)) = c.x
                /\ is_Const(g, get_binop_right(g, Result(g)))
                /\ g[get_binop_right(g, Result(g))].val = FoldAll(op, c.consts)

\* the nodes of G that the node it returns depends on, and the Return
RECURSIVE Reach(_, _, _)
Reach(G, front, seen) ==
    IF front = {} THEN seen
    ELSE Reach(G, UNION {{G[n].ins[i] : i \in DOMAIN G[n].ins} : n \in front} \ seen,
               seen \cup UNION {{G[n].ins[i] : i \in DOMAIN G[n].ins} : n \in front})

Live(G) == Reach(G, {Root(G)}, {Root(G)})

\* C7: when do_reassociation returns, the loop of do_reassociation would
\* report no change for any node of the graph: the forward phase has reached
\* a fixed point.
C7_ForwardFixedPoint ==
    [][pc = "reassoc" /\ pc' = "reverse"
          => \A n \in Live(g) : reassociate(g, loopOf, floatOk, n).res = 0]_vars

\* C8: a second application of the pass to the result of the first changes
\* nothing.
C8_SecondPassChangesNothing == pass = 2 => ~dirty

\* the nodes of G that are neither Blocks nor exchanged away
DataNodes(G) == {n \in Nodes(G) : G[n].op \notin {"Block", "Deleted"}}

\* every input of every node of G is defined in a block that dominates the
\* block of the node
InputsDominate(G) ==
    \A n \in DataNodes(G) : \A i \in DOMAIN G[n].ins :
        block_dominates(get_nodes_block(G, get_irn_n(G, n, i)), get_nodes_block(G, n))

\* the nodes a step from G to H has created
Created(G, H) == {n \in DataNodes(H) : n > Len(G)}

\* C9: every node created by Rule A, Rule B, move_consts_up or
\* reverse_rule_distributive is in a block that the block of each of its
\* operands dominates and that dominates the block of the node the rule
\* replaces; and if every input dominated its user before the rewrite, every
\* input dominates its user after it.
C9_PlacementRespectsDominance ==
    [][ev'.kind \in ArithRules
          => /\ \A m \in Created(g, g') :
                   /\ \A i \in DOMAIN g'[m].ins :
                         block_dominates(get_nodes_block(g', get_irn_n(g', m, i)),
                                         get_nodes_block(g', m))
                   /\ block_dominates(get_nodes_block(g', m), ev'.oldrec.blk)
             /\ InputsDominate(g) => InputsDominate(g')]_vars

\* a reverse rule has created a node in a block that is neither the start
\* block nor the block of the node it replaces
C9_Witness ==
    /\ ev.kind \in {"mcu", "dist", "mcu_dist", "mcu_then_dist"}
    /\ InputsDominate(g)
    /\ \E m \in DataNodes(g) :
          /\ m > Len(g0)
          /\ get_nodes_block(g, m) \notin {StartBlock, ev.oldrec.blk}

\* the deeper of the blocks of a and b
ClosestBlock(G, a, b) ==
    IF block_dominates(get_nodes_block(G, a), get_nodes_block(G, b))
    THEN get_nodes_block(G, b)
    ELSE get_nodes_block(G, a)

\* m is in the closest block of its two operands, or in the block curr if the
\* closest block is the start block
PlacedClosest(G, m, curr) ==
    LET c == ClosestBlock(G, get_binop_left(G, m), get_binop_right(G, m))
    IN get_nodes_block(G, m) = IF c = StartBlock THEN curr ELSE c

\* the combined node c1 .OP. c2 that the Rule A step from G to H has built
RuleA_combined(G, H, e) ==
    {m \in Created(G, H) : /\ e.kind = "A"
                           /\ e.new \in Created(G, H)
                           /\ get_irn_arity(H, e.new) = 2
                           /\ m = get_binop_right(H, e.new)
                           /\ get_irn_arity(H, m) = 2}

\* the nodes a +/- b and (a +/- b) . x that the reverse_rule_distributive
\* step from G to H has built
distributive_combined(G, H, e) ==
    {m \in Created(G, H) : /\ e.kind = "dist"
                           /\ e.new \in Created(G, H)
                           /\ get_irn_arity(H, e.new) = 2
                           /\ m \in {e.new, get_binop_left(H, e.new)}
                           /\ get_irn_arity(H, m) = 2}

\* C10 as stated: the node c1 .OP. c2 of Rule A and the two nodes of
\* reverse_rule_distributive are in the closest block of their operands, or
\* in the block of the rewritten node if that is the start block, and never
\* in the start block.
C10_CombinedNodesInClosestBlock ==
    [][\A m \in RuleA_combined(g, g', ev') \cup distributive_combined(g, g', ev') :
          /\ PlacedClosest(g', m, ev'.oldrec.blk)
          /\ get_nodes_block(g', m) # StartBlock]_vars

\* C10, amended: the two nodes of reverse_rule_distributive are in the
\* closest block of their operands, or in the block of the rewritten node if
\* that is the start block; the node c1 .OP. c2 of Rule A is in the block of
\* the rewritten node; none of them is in the start block unless the
\* rewritten node is.
C10_DistributiveClosestRuleAOwnBlock ==
    [][/\ \A m \in distributive_combined(g, g', ev') :
             PlacedClosest(g', m, ev'.oldrec.blk)
       /\ \A m \in RuleA_combined(g, g', ev') :
             get_nodes_block(g', m) = ev'.oldrec.blk
       /\ \A m \in RuleA_combined(g, g', ev') \cup distributive_combined(g, g', ev') :
             get_nodes_block(g', m) = StartBlock => ev'.oldrec.blk = StartBlock]_vars

\* reverse_rule_distributive has put a +/- b in a block above the block of
\* the node it rewrote, which is not the start block
C10_Witness ==
    /\ ev.kind = "dist"
    /\ get_irn_arity(g, ev.new) = 2
    /\ get_binop_left(g, ev.new) > Len(g0)
    /\ get_irn_arity(g, get_binop_left(g, ev.new)) = 2
    /\ get_nodes_block(g, get_binop_left(g, ev.new)) \notin {StartBlock, ev.oldrec.blk}

\* the inputs of n in G
InputsOf(G, n) == {G[n].ins[i] : i \in DOMAIN G[n].ins}

\* the nodes of S left when the nodes without an input in S are taken away
\* again and again: the nodes on a cycle of data-flow edges, and their users
RECURSIVE OnCycle(_, _)
OnCycle(G, S) ==
    LET free == {n \in S : InputsOf(G, n) \cap S = {}}
    IN IF free = {} THEN S ELSE OnCycle(G, S \ free)

\* the data-flow edges of G form a DAG
Acyclic(G) == OnCycle(G, Nodes(G)) = {}

\* C11: the data-flow edges of the graph form a DAG after every rewrite step
\* of every phase (ev records the step that led to the state), given that
\* they form one in the input graph.
C11_GraphStaysAcyclic == ev.kind # "none" /\ Acyclic(g0) => Acyclic(g)

\* the walk with walk_equality has rewritten an input and inserted a Not,
\* after Shannon has rewritten an input as well
C11_Witness ==
    /\ ev.kind = "equality"
    /\ Acyclic(g0)
    /\ \E n \in Nodes(g) : n > Len(g0) /\ is_Not(g, n)
    /\ \E n \in Nodes(g0) : g[n].op = g0[n].op /\ g[n].ins # g0[n].ins

\* the stage that applies the rewrites of a kind
StageOf(kind) ==
    CASE kind \in {"shannon", "shannon_skip"} -> "shannon"
      [] kind = "equality" -> "equality"
      [] kind \in {"A", "B"} -> "reassoc"
      [] kind \in {"mcu", "mcu_dist", "mcu_then_dist", "dist"} -> "reverse"
      [] OTHER -> "none"

\* the order of the stages of one application: a stage and its successor
StageOrder ==
    {<<"entry", "shannon">>, <<"shannon", "equality">>, <<"equality", "wq_walk">>,
     <<"wq_walk", "reassoc">>, <<"reassoc", "reverse">>, <<"reverse", "done">>}

\* C12: the graph is changed only if the assertion at the entry found it
\* pinned; the stages follow each other in the order Shannon, XOR-equality,
\* walk with wq_walker, worklist, reverse walk, unless an assertion stops
\* the program; a rewrite happens only in its own stage, so no forward
\* rewrite before the walk with walk_equality has visited every node and no
\* reverse rewrite before the worklist is empty; and the worklist is deleted,
\* when optimize_reassociation returns, only after the reverse walk is over.
C12_StagesInOrder ==
    [][/\ g' # g => pinned /\ pc # "entry" /\ pc = StageOf(ev'.kind) /\ pc' \in {pc, "abort"}
       /\ pc' # pc => pc' = "abort" \/ <<pc, pc'>> \in StageOrder
       /\ pc = "entry" /\ pc' = "shannon" => pinned
       /\ pc = "equality" /\ pc' = "wq_walk" => todo = {}
       /\ pc = "reassoc" /\ pc' = "reverse" => wq = <<>> /\ link = {} /\ cur = 0
       /\ pc = "reverse" => wq' = <<>>
       /\ pc' = "done" => pc = "reverse" /\ stk = <<>> /\ cur = 0]_vars

\* the pass has returned after two nodes of a pinned input graph were
\* exchanged
C12_Witness ==
    /\ pc = "done"
    /\ pinned
    /\ wq = <<>>
    /\ \E n, m \in Nodes(g) :
          /\ n < m
          /\ m <= Len(g0)
          /\ g[n].op = "Deleted"
          /\ g[m].op = "Deleted"

\* the Block nodes of G
BlocksOf(G) == {n \in Nodes(G) : is_Block(G, n)}

\* C13: no step creates, removes or changes a Block node, so the set of
\* blocks and the control-flow edges that define dominance stay as they
\* are; no step changes the block of a node that exists; and no Block is
\* put into the worklist or handed to do_reassociation.
C13_ControlFlowUntouched ==
    [][/\ BlocksOf(g') = BlocksOf(g)
       /\ \A b \in BlocksOf(g) : g'[b] = g[b]
       /\ \A n \in Nodes(g) : get_nodes_block(g', n) = get_nodes_block(g, n)
       /\ \A i \in DOMAIN wq' : ~is_Block(g', wq'[i])
       /\ link' \cap BlocksOf(g') = {}
       /\ cur' \notin BlocksOf(g')]_vars

\* the worklist holds nodes while the forward stage has created nodes in a
\* graph with three Blocks
C13_Witness ==
    /\ pc = "reassoc"
    /\ wq # <<>>
    /\ Len(g) > Len(g0)
    /\ BlocksOf(g) = Blocks

\* n is defined outside the loop of block, which is in a loop
InvariantIn(G, lo, n, block) == lo[block] = 1 /\ lo[get_nodes_block(G, n)] = 0

\* C14: get_const_class(n, block) returns REAL_CONSTANT iff n is a Const,
\* also for a Const that is loop-invariant; for another node it returns
\* REGION_CONST iff n is constant-like or is not Bad and loop-invariant with
\* respect to block, and NO_CONSTANT else; so a Bad node, though
\* loop-invariant, is NO_CONSTANT.
C14_ConstClass ==
    ret.fn = "get_const_class"
       => LET op == g[ret.n].op
              region == \/ op \in {"Address", "Offset", "Size", "Align"}
                        \/ op # "Bad" /\ InvariantIn(g, loopOf, ret.n, ret.block)
          IN /\ ret.class = REAL_CONSTANT <=> op = "Const"
             /\ op # "Const" => (ret.class = REGION_CONST <=> region)
             /\ op # "Const" /\ ~region => ret.class = NO_CONSTANT
             /\ op = "Bad" => ret.class = NO_CONSTANT

\* get_const_class has classified a Bad node that is defined outside the
\* loop of the block
C14_Witness ==
    /\ ret.fn = "get_const_class"
    /\ is_Bad(g, ret.n)
    /\ InvariantIn(g, loopOf, ret.n, ret.block)
    /\ ret.class = NO_CONSTANT

\* n = t1 .OP. c1 and t1 = t2 .OP. c2 after normalization, with the classes
\* of c1, c2 and t2 with respect to the block of n; ok if t1 has the opcode
\* of n
RuleA_operands(G, lo, n) ==
    LET o1 == get_comm_Binop_ops(G, lo, n)
        block == get_nodes_block(G, n)
    IN IF get_irn_op(G, o1.a) # get_irn_op(G, n)
       THEN [ok |-> FALSE, t1 |-> o1.a, c1 |-> o1.c, t2 |-> 0, c2 |-> 0,
             c_c1 |-> get_const_class(G, lo, o1.c, block), c_c2 |-> 0, c_t2 |-> 0]
       ELSE LET o2 == get_comm_Binop_ops(G, lo, o1.a)
            IN [ok |-> TRUE, t1 |-> o1.a, c1 |-> o1.c, t2 |-> o2.a, c2 |-> o2.c,
                c_c1 |-> get_const_class(G, lo, o1.c, block),
                c_c2 |-> get_const_class(G, lo, o2.c, block),
                c_t2 |-> get_const_class(G, lo, o2.a, block)]

\* k is c converted to mode: a Conv of c, or the converted Const
ConvertedTo(k, c, mode) ==
    /\ get_irn_mode(g, k) = mode
    /\ \/ get_irn_op(g, k) = "Conv" /\ g[k].ins = <<c>>
       \/ is_Const(g0, c) /\ is_Const(g, k)

\* the inputs of the combined node m are c1 converted and c2
ConvertedFirst(m, o) ==
    /\ ConvertedTo(get_binop_left(g, m), o.c1, get_irn_mode(g0, o.c2))
    /\ get_binop_right(g, m) = o.c2

\* the inputs of the combined node m are c1 and c2 converted
ConvertedSecond(m, o) ==
    /\ get_binop_left(g, m) = o.c1
    /\ ConvertedTo(get_binop_right(g, m), o.c2, get_irn_mode(g0, o.c1))

\* c1 and c2 have different integer modes
ModesDiffer(o) ==
    /\ get_irn_mode(g0, o.c1) # get_irn_mode(g0, o.c2)
    /\ mode_is_int(get_irn_mode(g0, o.c1))
    /\ mode_is_int(get_irn_mode(g0, o.c2))

\* the width of the mode of n in the graph the call started from
Bits(n) == get_mode_size_bits(get_irn_mode(g0, n))

\* the coercion of Rule A, except for operands of the same width
CoercionOfWidths(m, o) ==
    /\ Bits(o.c1) < Bits(o.c2) => ConvertedFirst(m, o)
    /\ Bits(o.c1) > Bits(o.c2) => ConvertedSecond(m, o)
    /\ get_irn_mode(g, get_binop_left(g, m)) = get_irn_mode(g, get_binop_right(g, m))

\* C15 as stated: when Rule A combines c1 and c2 of different integer modes,
\* the operand of fewer bits is converted to the mode of the other; if both
\* have the same width, the operand converted is a real constant; both
\* inputs of the combined node have the same mode.
C15_RealConstantConvertedOnTie ==
    ret.fn = "reassoc_commutative" /\ ret.rule = "A"
       => \A m \in RuleA_combined(g0, g, ev) :
             LET o == RuleA_operands(g0, loopOf, ret.n)
             IN ModesDiffer(o)
                   => /\ CoercionOfWidths(m, o)
                      /\ Bits(o.c1) = Bits(o.c2)
                            => \/ o.c_c1 = REAL_CONSTANT /\ ConvertedFirst(m, o)
                               \/ o.c_c2 = REAL_CONSTANT /\ ConvertedSecond(m, o)

\* C15, amended: if both have the same width, c1 is converted if it is a
\* real constant, and c2 is converted otherwise, whatever its class.
C15_FirstConvertedOnTieIfReal ==
    ret.fn = "reassoc_commutative" /\ ret.rule = "A"
       => \A m \in RuleA_combined(g0, g, ev) :
             LET o == RuleA_operands(g0, loopOf, ret.n)
             IN ModesDiffer(o)
                   => /\ CoercionOfWidths(m, o)
                      /\ Bits(o.c1) = Bits(o.c2)
                            => IF o.c_c1 = REAL_CONSTANT THEN ConvertedFirst(m, o)
                               ELSE ConvertedSecond(m, o)

\* Rule A has converted an operand c2 of the width of c1 that is no constant
\* of any class
C15_Witness ==
    /\ ret.fn = "reassoc_commutative"
    /\ ret.rule = "A"
    /\ \E m \in RuleA_combined(g0, g, ev) :
          LET o == RuleA_operands(g0, loopOf, ret.n)
          IN /\ ModesDiffer(o)
             /\ Bits(o.c1) = Bits(o.c2)
             /\ o.c_c2 = NO_CONSTANT
             /\ ConvertedSecond(m, o)

\* node m of G has two operands, one of them of reference mode
HasReferenceOperand(G, m) ==
    /\ get_irn_arity(G, m) = 2
    /\ \E i \in 1 .. 2 : mode_is_reference(get_irn_mode(G, get_irn_n(G, m, i)))

\* C16: every node that Rule A or move_consts_up builds from two operands
\* of which one has reference mode has reference mode, and the node that
\* replaces a node of reference mode has reference mode: (p + 4) + 8 keeps
\* the mode of p.
C16_ReferenceModeKept ==
    [][ev'.kind \in {"A", "mcu", "mcu_dist", "mcu_then_dist"}
          => /\ \A m \in Created(g, g') :
                   HasReferenceOperand(g', m) => mode_is_reference(get_irn_mode(g', m))
             /\ mode_is_reference(ev'.oldrec.mode)
                   => mode_is_reference(get_irn_mode(g', ev'.new))]_vars

\* Rule A has replaced (p + c2) + c1, with p of reference mode and c1, c2
\* real constants, by an Add of p and a Const
C16_Witness ==
    /\ ev.kind = "A"
    /\ mode_is_reference(ev.oldrec.mode)
    /\ is_Add(g, ev.new)
    /\ mode_is_reference(get_irn_mode(g, get_binop_left(g, ev.new)))
    /\ is_Const(g, get_binop_right(g, ev.new))
    /\ get_binop_right(g, ev.new) > Len(g0)

\* C17: while do_reassociation runs, the link of a node is the worklist iff
\* the node is in the worklist, and no node is in the worklist twice; when
\* do_reassociation has returned, no link is the worklist.
C17_LinkMarksQueued ==
    /\ pc = "reassoc"
          => /\ link = {wq[i] : i \in DOMAIN wq}
             /\ \A i, j \in DOMAIN wq : wq[i] = wq[j] => i = j
    /\ pc \in {"reverse", "done"} => link = {}

\* a changed node has put its inputs back into the worklist, which holds a
\* node the pass has created
C17_Witness ==
    /\ pc = "reassoc"
    /\ cur = 0
    /\ Len(wq) >= 2
    /\ \E i \in DOMAIN wq : wq[i] > Len(g0)

\* the class of operand x of the binop the last call was made for
ClassOf(x) == get_const_class(g, loopOf, x, get_nodes_block(g, ret.n))

\* C18: get_comm_Binop_ops returns the operands of the binop as (a, c), a
\* permutation of (left, right); if both are real constants and exactly one
\* has reference mode, c is the one that has not; otherwise, if one of them
\* is a real constant, c is a real constant; otherwise, if exactly one is a
\* region constant, c is that one; and c is NO_CONSTANT only if a is.
C18_ConstantReturnedSecond ==
    ret.fn = "get_comm_Binop_ops"
       => LET l == get_binop_left(g, ret.n)
              r == get_binop_right(g, ret.n)
              real == {x \in {l, r} : ClassOf(x) = REAL_CONSTANT}
              region == {x \in {l, r} : ClassOf(x) = REGION_CONST}
              refs == {x \in {l, r} : mode_is_reference(get_irn_mode(g, x))}
          IN /\ <<ret.a, ret.c>> \in {<<l, r>>, <<r, l>>}
             /\ IF real = {l, r} /\ Cardinality(refs) = 1 /\ l # r
                THEN ret.c \notin refs
                ELSE IF real # {} THEN ret.c \in real
                ELSE IF Cardinality(region) = 1 /\ l # r THEN ret.c \in region
                ELSE TRUE
             /\ ClassOf(ret.c) = NO_CONSTANT => ClassOf(ret.a) = NO_CONSTANT

\* get_comm_Binop_ops has returned the left operand, an integer Const, as
\* the constant of an Add of it and a reference Const
C18_Witness ==
    /\ ret.fn = "get_comm_Binop_ops"
    /\ ret.c = get_binop_left(g, ret.n)
    /\ ret.a = get_binop_right(g, ret.n)
    /\ is_Const(g, ret.a)
    /\ is_Const(g, ret.c)
    /\ mode_is_reference(get_irn_mode(g, ret.a))
    /\ ~mode_is_reference(get_irn_mode(g, ret.c))

\* how many of c1, c2 and t2 are region constants
RegionCount(o) ==
    Cardinality({i \in 1 .. 3 : <<o.c_c1, o.c_c2, o.c_t2>>[i] = REGION_CONST})

\* C19: with n = t1 .OP. c1 and t1 = t2 .OP. c2 after normalization, Rule A
\* does not fire if c1 is NO_CONSTANT, if c1, c2 and t2 are all region
\* constants, or if exactly two of them are region constants.
C19_RuleABlocked ==
    ret.fn = "reassoc_commutative"
       => LET o == RuleA_operands(g0, loopOf, ret.n)
          IN o.ok /\ (o.c_c1 = NO_CONSTANT \/ RegionCount(o) \in {2, 3})
                => ret.rule # "A"

\* reassoc_commutative has returned 0 for a node whose c1 is a region
\* constant and of whose c2 and t2 exactly one is a region constant
C19_Witness ==
    /\ ret.fn = "reassoc_commutative"
    /\ ret.res = 0
    /\ RuleA_operands(g0, loopOf, ret.n).ok
    /\ RuleA_operands(g0, loopOf, ret.n).c_c1 = REGION_CONST
    /\ RegionCount(RuleA_operands(g0, loopOf, ret.n)) = 2

RuleB_operands(G, lo, n) ==
    LET o == get_comm_Binop_ops(G, lo, n)
        swap == get_irn_op(G, o.c) = get_irn_op(G, n)
        t1 == IF swap THEN o.c ELSE o.a
        c1 == IF swap THEN o.a ELSE o.c
    IN IF get_irn_op(G, t1) # get_irn_op(G, n)
       THEN [ok |-> FALSE, t1 |-> t1, c1 |-> c1, l |-> 0, r |-> 0, c_r |-> 0]
       ELSE LET flip == get_binop_right(G, t1) = c1
                l == IF flip THEN get_binop_right(G, t1) ELSE get_binop_left(G, t1)
                r == IF flip THEN get_binop_left(G, t1) ELSE get_binop_right(G, t1)
            IN [ok |-> TRUE, t1 |-> t1, c1 |-> c1, l |-> l, r |-> r,
                c_r |-> get_const_class(G, lo, r, get_nodes_block(G, n))]

\* t1 = c1 .OP. r with r another node than c1 that is no constant
RuleB_pattern(b) == b.ok /\ b.l = b.c1 /\ b.r # b.c1 /\ b.c_r = NO_CONSTANT

\* the last call has replaced n by r .OP. (c1 .OP. c1), up to what
\* optimize_node makes of the two new nodes
RuleB_rewritten(b) ==
    /\ ret.res = 1
    /\ ret.rule = "B"
    /\ g[ret.n].op = "Deleted"
    /\ ev.new > Len(g0) /\ get_irn_arity(g, ev.new) = 2
          => /\ get_binop_left(g, ev.new) = b.r
             /\ get_binop_right(g, ev.new) > Len(g0)
                /\ get_irn_arity(g, get_binop_right(g, ev.new)) = 2
                   => g[get_binop_right(g, ev.new)].ins = <<b.c1, b.c1>>

RuleB_reached(o) == ~(o.ok /\ o.c_c1 # NO_CONSTANT)

C22_RuleBNotOnConstant ==
    ret.fn = "reassoc_commutative"
       => LET b == RuleB_operands(g0, loopOf, ret.n)
          IN b.ok /\ b.c_r # NO_CONSTANT
                => /\ ret.rule # "B"
                   /\ ret.rule # "A" => ret.res = 0 /\ g = g0

\* Rule B was reached on (x .OP. r) .OP. x with r a constant and 0 was
\* returned
C22_Witness ==
    /\ ret.fn = "reassoc_commutative"
    /\ RuleB_reached(RuleA_operands(g0, loopOf, ret.n))
    /\ RuleB_operands(g0, loopOf, ret.n).ok
    /\ RuleB_operands(g0, loopOf, ret.n).l = RuleB_operands(g0, loopOf, ret.n).c1
    /\ RuleB_operands(g0, loopOf, ret.n).r # RuleB_operands(g0, loopOf, ret.n).c1
    /\ RuleB_operands(g0, loopOf, ret.n).c_r # NO_CONSTANT
    /\ ret.res = 0

\* the inputs of u in G, with every use of old turned into a use of nw
Redirected(G, u, old, nw) ==
    [i \in 1 .. Len(G[u].ins) |-> IF G[u].ins[i] = old THEN nw ELSE G[u].ins[i]]

\* C23: reassoc_commutative returns nonzero iff it has exchanged n; when it
\* returns 0 no node was created and every node has the inputs it had; when
\* it returns nonzero *node is the node that replaced n: a live node other
\* than n that every user of n now uses in its place.
C23_ReturnTellsExchange ==
    ret.fn = "reassoc_commutative"
       => /\ ret.res \in {0, 1}
          /\ ret.res # 0 <=> g[ret.n].op = "Deleted"
          /\ ret.res = 0 => /\ Len(g) = Len(g0)
                            /\ \A u \in Nodes(g0) : g[u] = g0[u]
          /\ ret.res # 0 => /\ ev.old = ret.n
                            /\ ev.new \in Nodes(g) \ {ret.n}
                            /\ g[ev.new].op # "Deleted"
                            /\ \A u \in Nodes(g0) \ {ret.n} :
                                  g[u].ins = Redirected(g0, u, ret.n, ev.new)

\* reassoc_commutative has returned 1 and a user of n uses the new root
C23_Witness ==
    /\ ret.fn = "reassoc_commutative"
    /\ ret.res = 1
    /\ ev.new > Len(g0)
    /\ \E u \in Users(g0, ret.n) : ev.new \in InputsOf(g, u)

\* the nodes in the queue q
Queued(q) == {q[i] : i \in DOMAIN q}

\* q2 is q1 with the nodes of S appended at its tail, each of them once
AppendedAtTail(q1, q2, S) ==
    /\ Len(q2) = Len(q1) + Cardinality(S)
    /\ SubSeq(q2, 1, Len(q1)) = q1
    /\ {q2[i] : i \in Len(q1) + 1 .. Len(q2)} = S

\* C24: the worklist is a FIFO queue: do_reassociation takes the node at the
\* head and rewrites only this node; as long as the rules change it the queue
\* keeps the nodes behind it; when the rules have changed it, the inputs of
\* the resulting node that are not in the queue are appended at its tail,
\* behind all nodes queued at that moment; when they have not changed it,
\* nothing is enqueued.
C24_WorklistFifo ==
    [][pc = "reassoc" /\ pc' = "reassoc"
          => /\ cur = 0 /\ cur' = 0 => wq' = Tail(wq) /\ g' = g
             /\ cur = 0 /\ cur' # 0 => wq' = Tail(wq) /\ ev'.old = Head(wq)
             /\ cur # 0 /\ cur' # 0 => wq' = wq /\ ev'.old = cur
             /\ cur # 0 /\ cur' = 0
                   => /\ g' = g
                      /\ AppendedAtTail(wq, wq', InputsOf(g, cur) \ Queued(wq))]_vars

\* the rules have changed a node taken from the queue and a node they
\* created, an input of the resulting node, stands at the tail of the queue
\* behind nodes the walk has queued
C24_Witness ==
    /\ pc = "reassoc"
    /\ cur = 0
    /\ Len(wq) > 1
    /\ wq[1] <= Len(g0)
    /\ wq[Len(wq)] > Len(g0)
    /\ \E u \in Nodes(g) : wq[Len(wq)] \in InputsOf(g, u) /\ u > Len(g0)

\* L and R are both Mul or both Shl and share the factor x: a product has it
\* as either operand, a shift as its amount
SharedFactor(G, L, R, x) ==
    /\ get_irn_op(G, L) = get_irn_op(G, R)
    /\ \/ get_irn_op(G, L) = "Mul" /\ x \in InputsOf(G, L) \cap InputsOf(G, R)
       \/ /\ get_irn_op(G, L) = "Shl"
          /\ x = get_binop_right(G, L)
          /\ x = get_binop_right(G, R)

\* a is the operand of the Mul or Shl node L that is left beside the factor x
RemainingOperand(G, L, x, a) ==
    \/ G[L].ins = <<a, x>>
    \/ get_irn_op(G, L) = "Mul" /\ G[L].ins = <<x, a>>

\* node m of H is (a +/- b) . x, as far as reverse_rule_distributive has
\* created it: a is the remaining operand of L, b the one of R
FactoredOut(G, H, n, m) ==
    LET L == get_binop_left(G, n)
        R == get_binop_right(G, n)
        x == get_binop_right(H, m)
        s == get_binop_left(H, m)
    IN m > Len(G) /\ get_irn_arity(H, m) = 2
          => /\ get_irn_op(H, m) = get_irn_op(G, L)
             /\ SharedFactor(G, L, R, x)
             /\ s > Len(G) /\ get_irn_arity(H, s) = 2
                   => /\ get_irn_op(H, s) = get_irn_op(G, n)
                      /\ RemainingOperand(G, L, x, get_binop_left(H, s))
                      /\ RemainingOperand(G, R, x, get_binop_right(H, s))

\* C25: reverse_rule_distributive on n = L +/- R returns 1 iff L and R are
\* both Mul or both Shl and share a factor x; n is then replaced by
\* (a +/- b) . x, a the remaining operand of L and b the one of R, in this
\* order; otherwise it returns 0 and the graph is unchanged.
C25_DistributiveFiresOnSharedFactor ==
    ret.fn = "reverse_rule_distributive"
       => /\ ret.res = 1 <=> \E x \in Nodes(g0) :
                                SharedFactor(g0, get_binop_left(g0, ret.n),
                                             get_binop_right(g0, ret.n), x)
          /\ ret.res = 0 => g = g0
          /\ ret.res = 1 => /\ g[ret.n].op = "Deleted"
                            /\ FactoredOut(g0, g, ret.n, ev.new)

\* (x * a) - (b * x) was replaced by the new nodes (a - b) * x
C25_Witness ==
    /\ ret.fn = "reverse_rule_distributive"
    /\ ret.res = 1
    /\ g0[ret.n].op = "Sub"
    /\ g0[get_binop_left(g0, ret.n)].op = "Mul"
    /\ get_binop_left(g0, get_binop_left(g0, ret.n))
          = get_binop_right(g0, get_binop_right(g0, ret.n))
    /\ ev.new > Len(g0)
    /\ g[ev.new].op = "Mul"
    /\ get_binop_left(g, ev.new) > Len(g0)
    /\ g[get_binop_left(g, ev.new)].op = "Sub"
    /\ get_binop_left(g, get_binop_left(g, ev.new))
          # get_binop_right(g, get_binop_left(g, ev.new))

\* t has the opcode of n and a constant expression as an operand
HoldsConstant(G, n, t) ==
    /\ get_irn_op(G, t) = get_irn_op(G, n)
    /\ \E c \in InputsOf(G, t) : is_constant_expr(G, c)

\* why move_consts_up gives up on n = l .op. r: an operand is a constant
\* expression already, no operand holds one, or a and b, the operands of the
\* new inner node, have different integer modes or are not available in the
\* block of the inner node taken apart
GivesUp(G, n) ==
    LET l == get_binop_left(G, n)
        r == get_binop_right(G, n)
        m == move_consts_match(G, n)
    IN \/ is_constant_expr(G, l) \/ is_constant_expr(G, r)
       \/ ~HoldsConstant(G, n, l) /\ ~HoldsConstant(G, n, r)
       \/ /\ get_irn_mode(G, m.a) # get_irn_mode(G, m.b)
          /\ mode_is_int(get_irn_mode(G, m.a))
          /\ mode_is_int(get_irn_mode(G, m.b))
       \/ ~block_dominates(get_nodes_block(G, m.a), m.blk)
       \/ ~block_dominates(get_nodes_block(G, m.b), m.blk)

\* node k of H is (a .op. b) .op. C as far as move_consts_up has created it
ConstantUp(G, H, n, k) ==
    LET m == move_consts_match(G, n)
        s == get_binop_left(H, k)
    IN k > Len(G) /\ get_irn_arity(H, k) = 2
          => /\ get_irn_op(H, k) = get_irn_op(G, n)
             /\ get_binop_right(H, k) = m.c
             /\ is_constant_expr(G, m.c)
             /\ s > Len(G) /\ get_irn_op(H, s) = get_irn_op(G, n)
                   => H[s].ins = <<m.a, m.b>>

\* C26: move_consts_up on n = l .op. r returns 0 and leaves the graph
\* unchanged when l or r is a constant expression, when neither is a node of
\* the opcode of n with a constant expression as operand, when a and b have
\* different integer modes, or when the block of a or of b does not dominate
\* the block of the inner node taken apart; otherwise it returns 1 and n is
\* replaced by (a .op. b) .op. C, C the second operand of the new root.
C26_MoveConstsUpFrame ==
    ret.fn = "move_consts_up"
       => /\ ret.res = 0 <=> GivesUp(g0, ret.n)
          /\ ret.res = 0 => g = g0
          /\ ret.res # 0 => /\ ret.res = 1
                            /\ g[ret.n].op = "Deleted"
                            /\ ConstantUp(g0, g, ret.n, ev.new)

\* move_consts_up has replaced n by new nodes (a .op. b) .op. C
C26_Witness ==
    /\ ret.fn = "move_consts_up"
    /\ ret.res = 1
    /\ ev.new > Len(g0)
    /\ get_irn_arity(g, ev.new) = 2
    /\ is_constant_expr(g, get_binop_right(g, ev.new))
    /\ get_binop_left(g, ev.new) > Len(g0)
    /\ get_irn_op(g, get_binop_left(g, ev.new)) = get_irn_op(g0, ret.n)

\* a rule of the reverse phase would still change node
ReverseApplicable(G, node) ==
    \/ is_op_commutative(get_irn_op(G, node)) /\ move_consts_up(G, node).res = 1
    \/ /\ is_Add(G, node) \/ is_Sub(G, node)
       /\ reverse_rule_distributive(G, node).res = 1

\* the step is the last round of reverse_rules for a node
ReverseRulesReturns == pc = "reverse" /\ pc' = "reverse" /\ cur' = 0

\* the node in the place of the node reverse_rules was called for, after the
\* last round
NodeInPlace ==
    IF ev'.kind # "none" THEN ev'.new
    ELSE IF cur # 0 THEN cur
    ELSE WalkAdvance(g, stk, visited).node

\* C27: when reverse_rules returns for a node, neither move_consts_up nor
\* reverse_rule_distributive is applicable to the node now in its place.
C27_ReverseLocalFixedPoint ==
    [][ReverseRulesReturns => ~ReverseApplicable(g', NodeInPlace)]_vars

\* reverse_rules leaves a node of a float mode alone, unless imprecise float
\* transformations are allowed
FloatSkipped(G, node) == mode_is_float(get_irn_mode(G, node)) /\ ~floatOk

\* C27, amended: when reverse_rules returns for a node that it has not
\* skipped for its float mode, neither move_consts_up nor
\* reverse_rule_distributive is applicable to the node now in its place.
C27_ReverseFixedPointUnlessFloat ==
    [][ReverseRulesReturns /\ ~FloatSkipped(g', NodeInPlace)
          => ~ReverseApplicable(g', NodeInPlace)]_vars

\* reverse_rules has returned for an Add after a round in which
\* move_consts_up changed it and reverse_rule_distributive, not applicable to
\* the new node, overwrote the result with 0
C27_Witness ==
    /\ pc = "reverse"
    /\ cur = 0
    /\ ev.kind = "mcu"
    /\ is_Add(g, ev.new)
    /\ ~FloatSkipped(g, ev.new)
    /\ ~ReverseApplicable(g, ev.new)

\* the number of times the node of the i-th call was reached in the search of
\* this call, this call included: the calls that counted the visit
Reached(log, i) ==
    Cardinality({j \in 1 .. i : /\ log[j].search = log[i].search
                                /\ log[j].node = log[i].node
                                /\ log[j].kind # "record"})

\* the nodes the search k went into the inputs of
ExploredIn(log, k) ==
    {log[j].node : j \in {i \in DOMAIN log : log[i].search = k /\ log[i].kind = "recurse"}}

\* C28: within one search of try_basenode, find_path_to_top_node goes into
\* the inputs of a node only if the node is a bitop and was reached in this
\* search as many times as it has out edges; so it goes into the inputs of a
\* node at most once per search, and the other_node of every recorded
\* optimization is the base node or a node all of whose users are the base
\* node or nodes whose inputs the search went into.
C28_ShannonExploration ==
    pc = "shannon" /\ pass = 1
       => /\ \A i \in DOMAIN sh.log :
                sh.log[i].kind = "recurse"
                   => /\ is_bitop(g0, sh.log[i].node)
                      /\ Reached(sh.log, i) = get_irn_n_outs(g0, sh.log[i].node)
                      /\ \A j \in 1 .. (i - 1) :
                            sh.log[j].kind = "recurse" /\ sh.log[j].search = sh.log[i].search
                               => sh.log[j].node # sh.log[i].node
          /\ \A i \in DOMAIN sh.log :
                sh.log[i].kind = "record"
                   => \/ sh.log[i].from = sh.log[i].base
                      \/ Users(g0, sh.log[i].from)
                            \subseteq ExploredIn(sh.log, sh.log[i].search) \cup {sh.log[i].base}

\* a search went into the inputs of a node that had a counter left over from
\* an earlier search, and recorded an optimization with another other_node
\* than the base node
C28_Witness ==
    /\ pc = "shannon"
    /\ pass = 1
    /\ \E i \in DOMAIN sh.log :
          /\ sh.log[i].kind = "recurse"
          /\ sh.log[i].old > 0
          /\ sh.log[i].old < sh.log[i].walk_base
          /\ \E j \in DOMAIN sh.log : /\ j > i
                                      /\ sh.log[j].kind = "record"
                                      /\ sh.log[j].search = sh.log[i].search
                                      /\ sh.log[j].from # sh.log[j].base

\* the i-th call is the first call of its search
FirstOfSearch(log, i) == i = 1 \/ log[i - 1].search # log[i].search

\* C29: in every state of do_shannon walk_base <= walk_max and every counter
\* of the map is <= walk_max; each search starts with walk_base set to
\* walk_max, so that a counter left over from an earlier search is
\* <= walk_base and counts as no visit: after each visit the counter of the
\* node is walk_base plus the number of visits of the node in this search.
C29_ShannonCounters ==
    pc = "shannon"
       => /\ sh.walk_base <= sh.walk_max
          /\ \A n \in DOMAIN sh.walk_counter : sh.walk_counter[n] <= sh.walk_max
          /\ \A i \in DOMAIN sh.log :
                /\ sh.log[i].walk_base <= sh.log[i].walk_max
                /\ sh.log[i].most <= sh.log[i].walk_max
                /\ FirstOfSearch(sh.log, i)
                      => /\ sh.log[i].walk_base = IF i = 1 THEN 0 ELSE sh.log[i - 1].walk_max
                         /\ sh.log[i].old <= sh.log[i].walk_base
                /\ sh.log[i].kind # "record"
                      => /\ sh.log[i].counter - sh.log[i].walk_base = Reached(sh.log, i)
                         /\ Reached(sh.log, i) = 1 => sh.log[i].old <= sh.log[i].walk_base

\* a node with a counter left over from an earlier search, less than
\* walk_base, was visited and its counter became walk_base + 1
C29_Witness ==
    /\ pc = "shannon"
    /\ \E i \in DOMAIN sh.log :
          /\ sh.log[i].kind # "record"
          /\ sh.log[i].old > 0
          /\ sh.log[i].old < sh.log[i].walk_base
          /\ sh.log[i].counter = sh.log[i].walk_base + 1
          /\ sh.log[i].counter = sh.log[i].walk_max

\* the optimization o is structurally valid in G: top is an input of base,
\* or of middle and middle an input of base, and top is an input of
\* other_node
StillValid(G, o) ==
    /\ o.middle_node = 0 => o.top_node \in InputsOf(G, o.base_node)
    /\ o.middle_node # 0 => /\ o.top_node \in InputsOf(G, o.middle_node)
                            /\ o.middle_node \in InputsOf(G, o.base_node)
    /\ o.top_node \in InputsOf(G, o.other_node)

\* H is G with one input of other_node, top_node, replaced by a constant
ConstantForTop(G, H, o) ==
    /\ \E pos \in DOMAIN G[o.other_node].ins :
          /\ G[o.other_node].ins[pos] = o.top_node
          /\ is_Const(H, H[o.other_node].ins[pos])
          /\ \A i \in DOMAIN G[o.other_node].ins \ {pos} :
                H[o.other_node].ins[i] = G[o.other_node].ins[i]
    /\ \A u \in Nodes(G) \ {o.other_node} : H[u] = G[u]

\* the step applies or skips the next collected optimization
AppliesNext ==
    /\ pc = "shannon"
    /\ pc' = "shannon"
    /\ todo = {}
    /\ sh.optimizations # <<>>
    /\ sh'.optimizations = Tail(sh.optimizations)

\* C30: do_shannon changes nothing while it collects; it takes up the
\* collected optimizations only when the walk is over; it applies one only
\* if it is still structurally valid, replacing top_node in other_node by a
\* constant, and else skips it without changing the graph; so top_node is
\* an input of other_node whenever replace_node is called.
C30_CollectThenApply ==
    [][/\ pc = "shannon" /\ todo # {}
             => g' = g /\ Len(sh'.optimizations) >= Len(sh.optimizations)
       /\ pc = "shannon" /\ g' # g => AppliesNext
       /\ AppliesNext
             => IF StillValid(g, Head(sh.optimizations))
                THEN /\ ev'.kind = "shannon"
                     /\ has_operand(g, Head(sh.optimizations).other_node,
                                    Head(sh.optimizations).top_node)
                     /\ ConstantForTop(g, g', Head(sh.optimizations))
                ELSE ev'.kind = "shannon_skip" /\ g' = g]_vars

\* an optimization that an earlier replacement has made invalid was skipped,
\* after a replacement was applied
C30_Witness ==
    /\ pc = "shannon"
    /\ todo = {}
    /\ ev.kind = "shannon_skip"
    /\ g # g0
    /\ pass = 1

AllOnes == Modulus - 1

\* the literal operand K of the Eor node
LiteralOf(G, eor) ==
    IF is_Const(G, get_binop_left(G, eor)) THEN G[get_binop_left(G, eor)].val
    ELSE G[get_binop_right(G, eor)].val

\* the constant Shannon puts for top_node: all-ones, zero or NOT K under an
\* And, zero, all-ones or K under an Or, for no middle node, a Not and an
\* Eor with the literal K
ShannonConstant(G, o) ==
    LET K == LiteralOf(G, o.middle_node)
    IN IF is_And(G, o.base_node)
       THEN IF o.middle_node = 0 THEN AllOnes
            ELSE IF is_Not(G, o.middle_node) THEN 0
            ELSE AllOnes - K
       ELSE IF o.middle_node = 0 THEN 0
            ELSE IF is_Not(G, o.middle_node) THEN AllOnes
            ELSE K

\* the input slots of n that differ between G and H
SlotsChanged(G, H, n) == {i \in DOMAIN G[n].ins : H[n].ins[i] # G[n].ins[i]}

\* C31: an applied optimization changes exactly one input slot of
\* other_node, one that held top_node, and puts there the constant
\* base_identity XOR replacement: all-ones, zero, NOT K under an And base and
\* zero, all-ones, K under an Or base, for no middle node, a Not and an Eor
\* with the literal K.
C31_ShannonConstant ==
    [][AppliesNext /\ StillValid(g, Head(sh.optimizations))
          => LET o == Head(sh.optimizations)
             IN /\ Cardinality(SlotsChanged(g, g', o.other_node)) = 1
                /\ \A i \in SlotsChanged(g, g', o.other_node) :
                      /\ g[o.other_node].ins[i] = o.top_node
                      /\ is_Const(g', g'[o.other_node].ins[i])
                      /\ g'[g'[o.other_node].ins[i]].val = ShannonConstant(g, o)
                      /\ g'[g'[o.other_node].ins[i]].mode = get_irn_mode(g, o.other_node)]_vars

\* under an And base with an Eor middle node x ^ K, NOT K was put for x
C31_Witness ==
    /\ pc = "shannon"
    /\ ev.kind = "shannon"
    /\ \E o \in {sh.log[i] : i \in DOMAIN sh.log} :
          /\ o.kind = "record"
          /\ o.from = ev.old
          /\ is_And(g, o.base)
    /\ \E i \in DOMAIN g[ev.old].ins :
          /\ is_Const(g, g[ev.old].ins[i])
          /\ ev.oldrec.ins[i] # g[ev.old].ins[i]
          /\ \E m \in Nodes(g) :
                /\ is_Eor(g, m)
                /\ get_binop_left(g, m) = ev.oldrec.ins[i]
                /\ is_Const(g, get_binop_right(g, m))
                /\ g[g[ev.old].ins[i]].val = AllOnes - g[get_binop_right(g, m)].val
                /\ g[get_binop_right(g, m)].val # 0


(***************************************************************************)
(* C32: the scope of the replacement of walk_equality.                     *)
(***************************************************************************)
\* the bitop nodes with at most one out edge reachable from n through such nodes
RECURSIVE EqualityScope(_, _)
EqualityScope(G, n) ==
    IF is_bitop(G, n) /\ get_irn_n_outs(G, n) <= 1
    THEN {n} \cup UNION {EqualityScope(G, G[n].ins[i]) : i \in DOMAIN G[n].ins}
    ELSE {}

\* the operands a and b replace_until_other_user is called with for the Eor l
EqualityOperands(G, l) ==
    LET a == get_binop_left(G, l)
        b == get_binop_right(G, l)
    IN IF is_Const(G, b) THEN [a |-> a, b |-> b, literal |-> TRUE]
       ELSE IF is_Const(G, a) THEN [a |-> b, b |-> a, literal |-> TRUE]
       ELSE [a |-> IF is_Not(G, a) THEN get_irn_n(G, a, 1) ELSE a,
             b |-> IF is_Not(G, b) THEN get_irn_n(G, b, 1) ELSE b,
             literal |-> FALSE]

\* the inputs holding a or b in the order the traversal from n meets them
RECURSIVE Encounters(_, _, _, _)
RECURSIVE EncountersFrom(_, _, _, _, _)
Encounters(G, n, a, b) ==
    IF is_bitop(G, n) /\ get_irn_n_outs(G, n) <= 1
    THEN EncountersFrom(G, n, 1, a, b)
    ELSE <<>>

EncountersFrom(G, n, i, a, b) ==
    IF i > Len(G[n].ins) THEN <<>>
    ELSE (IF G[n].ins[i] \in {a, b}
          THEN <<[node |-> n, slot |-> i, t |-> G[n].ins[i]]>>
          ELSE Encounters(G, G[n].ins[i], a, b))
         \o EncountersFrom(G, n, i + 1, a, b)

\* the input slot i of node n was met after an input holding the other operand
MetAfterOther(E, n, i, a, b) ==
    \E p \in DOMAIN E :
       /\ E[p].node = n
       /\ E[p].slot = i
       /\ \E q \in 1 .. p - 1 : E[q].t = (IF E[p].t = a THEN b ELSE a)

\* the nodes of G with another input in H
NodesChanged(G, H) == {n \in Nodes(G) : H[n].ins # G[n].ins}

\* C32: a call of walk_equality on a node with the operands l, the Eor, and
\* r changes inputs only of bitop nodes that have at most one user and are
\* reachable from r through such nodes, and changes nothing when the out
\* edges are not activated; when neither operand a nor b of the Eor is a
\* literal, an input holding one of them is replaced only if an input holding
\* the other was met earlier in the traversal from r, so that a graph with
\* only one of a and b below r is left as it is.
C32_EqualityScope ==
    [][pc = "equality"
          => /\ \A n \in todo :
                   equality_assert_ok(g, n) => walk_equality(g, FALSE, n) = g
             /\ g' # g
                   => LET m == equality_match(g, ev'.old)
                          o == EqualityOperands(g, m.l)
                          E == Encounters(g, m.r, o.a, o.b)
                      IN /\ NodesChanged(g, g') \subseteq EqualityScope(g, m.r)
                         /\ \A n \in NodesChanged(g, g') :
                               Cardinality(Users(g, n)) <= 1
                         /\ ~o.literal
                               => /\ \A n \in NodesChanged(g, g') :
                                        \A i \in SlotsChanged(g, g', n) :
                                           MetAfterOther(E, n, i, o.a, o.b)
                                  /\ {E[p].t : p \in DOMAIN E} = {o.a, o.b}]_vars

\* And(Eor(x, y), f) for an f with one user like Eor(Not(x), y), the Not
\* with one user too: the y below f is replaced, by x or a Not of x, after
\* the x below the inner node was met, and the inner node is left as it is
C32_Witness ==
    /\ ev.kind = "equality"
    /\ LET m == equality_match(g0, ev.old)
           o == EqualityOperands(g0, m.l)
           E == Encounters(g0, m.r, o.a, o.b)
       IN /\ m.ok
          /\ ~o.literal
          /\ Len(E) = 2
          /\ E[1].node # m.r
          /\ E[2].node = m.r
          /\ E[1].t # E[2].t
          /\ SlotsChanged(g0, g, m.r) = {E[2].slot}
          /\ \A k \in Nodes(g0) \ {m.r} : g[k] = g0[k]
          /\ LET x == g[m.r].ins[E[2].slot]
             IN x = E[1].t \/ (is_Not(g, x) /\ get_irn_n(g, x, 1) = E[1].t)


(***************************************************************************)
(* C33: dominance after the replacement of walk_equality.                  *)
(***************************************************************************)
\* C33: when walk_equality replaces an input of a node m, by the other
\* operand b of the Eor or by a new Not of b in the block of b, the block of
\* the new input dominates the block of m; so, if every input was defined in
\* a block dominating the block of its user before, it is so afterwards.
C33_EqualityKeepsDominance ==
    [][pc = "equality" /\ g' # g
          => /\ \A m \in NodesChanged(g, g') : \A i \in SlotsChanged(g, g', m) :
                   block_dominates(get_nodes_block(g', get_irn_n(g', m, i)),
                                   get_nodes_block(g', m))
             /\ InputsDominate(g) => InputsDominate(g')]_vars


(***************************************************************************)
(* C34: the assertion of walk_equality after do_shannon.                   *)
(***************************************************************************)
\* no Eor of G has the same node as its two operands
NoIdenticalEor(G) ==
    \A n \in Nodes(G) : is_Eor(G, n) => get_binop_left(G, n) # get_binop_right(G, n)

\* C34: when the pass started from a graph in which no Eor has two identical
\* operands, the operands a and b of the Eor that walk_equality finds below
\* an And or Or node it is called for, directly or below a Not, are different
\* nodes: the assertion a != b holds for every node the walk has yet to
\* visit, on the graph do_shannon has produced.
C34_EqualityAssertHolds ==
    pc = "equality" /\ NoIdenticalEor(g0)
       => \A n \in todo : equality_assert_ok(g, n)


(***************************************************************************)
(* C35: the optimization records of do_shannon.                            *)
(***************************************************************************)
\* C35: when do_shannon returns, every optimization record that
\* find_path_to_top_node has allocated has been freed, the records skipped
\* in the loop because they were no longer valid included: as many records
\* were freed as were allocated (the loop frees a record at most once, as it
\* takes up every element of the list once).
C35_ShannonRecordsFreed ==
    [][pc = "shannon" /\ pc' = "equality" => sh.freed = sh.allocated]_vars


(***************************************************************************)
(* C36: the structure of the pointer list.                                 *)
(***************************************************************************)
\* the elements of the sequence sq
ElementsOf(sq) == {sq[i] : i \in DOMAIN sq}

\* sq with x put in at position i, and sq without its position i
InsertAt(sq, i, x) == SubSeq(sq, 1, i - 1) \o <<x>> \o SubSeq(sq, i, Len(sq))
RemoveAt(sq, i) == SubSeq(sq, 1, i - 1) \o SubSeq(sq, i + 1, Len(sq))

\* the position of the element e in sq
PosOf(sq, e) == CHOOSE i \in DOMAIN sq : sq[i] = e

\* elementCount is the number of the elements reachable from firstElement;
\* firstElement, lastElement and elementCount are NULL and 0 together; the
\* first element has no prev, the last element is lastElement and has no
\* next; prev is the inverse of next; no element is in the list and on the
\* free list
PlistWellFormed(L) ==
    LET S == ListElements(L)
        F == FreeElements(L)
    IN /\ Len(S) <= L.obst
       /\ Len(F) <= L.obst
       /\ Cardinality(ElementsOf(S)) = Len(S)
       /\ L.elementCount = Len(S)
       /\ (L.firstElement = NULL) = (L.lastElement = NULL)
       /\ (L.firstElement = NULL) = (L.elementCount = 0)
       /\ S # <<>> => /\ L.prev[S[1]] = NULL
                      /\ S[Len(S)] = L.lastElement
                      /\ L.next[L.lastElement] = NULL
       /\ \A i \in 1 .. Len(S) - 1 : L.prev[S[i + 1]] = S[i]
       /\ ElementsOf(S) \cap ElementsOf(F) = {}

\* the elements of the list H are those of the list L with the element e,
\* which holds value, put in at position i
PutIn(L, H, i, value) ==
    \E e \in 1 .. H.obst :
       /\ e \notin ElementsOf(ListElements(L))
       /\ ListElements(H) = InsertAt(ListElements(L), i, e)
       /\ H.data[e] = value

\* the list H is what the call c makes of the list L as a sequence
FollowsSequence(L, c, H) ==
    LET S == ListElements(L)
    IN /\ \A e \in ElementsOf(S) \cap ElementsOf(ListElements(H)) : H.data[e] = L.data[e]
       /\ CASE c.fn = "plist_insert_front" -> PutIn(L, H, 1, c.value)
            [] c.fn = "plist_insert_back" -> PutIn(L, H, Len(S) + 1, c.value)
            [] c.fn = "plist_insert_before" -> PutIn(L, H, PosOf(S, c.element), c.value)
            [] c.fn = "plist_insert_after" -> PutIn(L, H, PosOf(S, c.element) + 1, c.value)
            [] c.fn = "plist_erase" -> ListElements(H) = RemoveAt(S, PosOf(S, c.element))
            [] c.fn = "plist_clear" -> ListElements(H) = <<>>
            [] OTHER -> TRUE

\* C36: after every call of plist_insert_front, plist_insert_back,
\* plist_insert_before, plist_insert_after, plist_erase and plist_clear on a
\* list, elementCount is the number of the elements reachable from
\* firstElement along next; firstElement is NULL just when lastElement is
\* and just when elementCount is 0; the first element has no prev and the
\* last no next; prev and next agree; the elements are in the order of the
\* sequence the calls describe; and no element is both in the list and on
\* the free list.
C36_PlistStructure ==
    [][list'.alive => PlistWellFormed(list') /\ FollowsSequence(list, lcall', list')]_vars

\* an element taken from the free list was put before or after an element
\* of the list, while another element stays on the free list
C36_Witness ==
    /\ list.alive
    /\ lcall.fn \in {"plist_insert_before", "plist_insert_after"}
    /\ list.elementCount = 2
    /\ list.obst = MaxElements
    /\ list.firstFreeElement # NULL
    /\ list.firstElement > list.lastElement


(***************************************************************************)
(* C37: the free list of the pointer list.                                 *)
(***************************************************************************)
\* the elements of the list L and of its free list
AllElements(L) == ElementsOf(ListElements(L)) \cup ElementsOf(FreeElements(L))

\* C37: plist_erase and plist_clear lose no element: the elements in the
\* list or on the free list are the same before and after; after plist_clear
\* the list is empty and every element that was in the list or on the free
\* list is on the free list, also when the list was empty already; and an
\* insertion takes its element from the free list, without a new element on
\* the obstack, whenever the free list is not empty.
C37_FreeListConservation ==
    [][list'.alive
          => /\ lcall'.fn \in {"plist_erase", "plist_clear"}
                   => AllElements(list') = AllElements(list)
             /\ lcall'.fn = "plist_clear"
                   => /\ ListElements(list') = <<>>
                      /\ ElementsOf(FreeElements(list')) = AllElements(list)
             /\ (lcall'.fn \in {"plist_insert_front", "plist_insert_back",
                                "plist_insert_before", "plist_insert_after"}
                   /\ list.firstFreeElement # NULL)
                   => /\ list'.obst = list.obst
                      /\ list.firstFreeElement \in ElementsOf(ListElements(list'))]_vars

=============================================================================
